---- MODULE Spec2Model ----
(***************************************************************************)
(* State-machine model of the Brackets node file system bridge:            *)
(*   - the request scheduler (_enqueueRequest / _dequeueRequest),          *)
(*   - the facade operations stat, writeFile and readAllFiles together     *)
(*     with the worker commands they drive (statCmd, writeFileCmd,         *)
(*     readAllFilesCmd) over a small file system,                          *)
(*   - the file watcher change coalescer (_fileWatcherChange /             *)
(*     _enqueueChange),                                                    *)
(*   - the facade operations exists, unlink, watchPath, unwatchPath and    *)
(*     unwatchAll with the worker's watcher map, and the connection-based  *)
(*     variant of the facade (_execWhenConnected),                         *)
(*   - the error translators (_mapError, _mapNodeError, _wrap), readFile   *)
(*     in text mode and the binary encoding of a stat record               *)
(*     (_getStatsBuffer, _formatStats, _statHelper),                       *)
(*   - readAllFiles in binary mode, the encoding argument of readFile,     *)
(*     readAllFiles and writeFile, and the handler of "close",             *)
(*   - the calls the connection-based facade defers until the connection   *)
(*     is ready, the worker's watcher objects (watchPath, unwatchPath,     *)
(*     unwatchAll, watcher errors), and the scheduler under fair timers.   *)
(* The UI side is single threaded: every action below is one run to        *)
(* completion of a handler, timer callback or promise callback.            *)
(***************************************************************************)
EXTENDS Integers, Sequences, FiniteSets, TLC

(***************************************************************************)
(* Bounds of the model                                                     *)
(***************************************************************************)
MaxRequests == 4          \* thunks handed to _enqueueRequest in one behaviour
MaxBound == 2             \* largest finite MAX_CONNECTIONS explored

MaxStats == 1             \* stat operations called in one behaviour
MaxWrites == 1            \* writeFile operations called in one behaviour
MaxClock == 1             \* largest modification time the file system hands out
MaxPaths == 2             \* longest path list given to readAllFiles
MaxNotifications == 3     \* raw change notifications delivered in one behaviour
MaxWindows == 2           \* coalescing windows opened in one behaviour
MaxOps == 2               \* exists / unlink / watch / readFile / connected stat operations called
MaxEvents == 1            \* change events the worker's watchers emit in one behaviour
MaxCloses == 1            \* "close" events of the connection in one behaviour
MaxRealpath == 2          \* characters of a resolved path given to the binary encoder

Paths == {"/a", "/b"}

\* raw change notifications: watched path, event, filename ("" when absent)
RawPaths == {"/d/", "/d/f"}
RawEvents == {"change", "rename", "error"}
RawNames == {"", "f"}
\* the paths _fileWatcherChange can register from them
ChangeKeys == {"/d/", "/d/f", "/d/ff"}

\* the entries of the file system, named without trailing slash
FsPaths == Paths \cup {"/d", "/d/f", "/d/ff"}
ExistsPaths == {"/d/f", "/d/ff"}          \* paths given to exists
UnlinkPaths == {"/d/f"}                   \* paths given to unlink
WorkerPaths == {"/d/", "/a", "/b"}        \* paths the worker is asked to watch: "/b" is missing
MaxWatchers == 3                          \* watcher objects created in one behaviour
WatchPaths == {"/d/"}                     \* paths given to watchPath and unwatchPath
WritePaths == {"/a"}                      \* paths written by writeFile and by other processes

\* errors of the dialog vocabulary: falsy values, the codes of appshell.fs by
\* the name of their constant, and a code _mapError does not know
DialogErrors == {"undefined", "null", "0", "ERR_UNKNOWN", "ERR_INVALID_PARAMS", "ERR_NOT_FOUND",
                 "ERR_CANT_READ", "ERR_UNSUPPORTED_ENCODING", "ERR_CANT_WRITE",
                 "ERR_OUT_OF_SPACE", "ERR_NOT_FILE", "ERR_NOT_DIRECTORY", "ERR_FILE_EXISTS",
                 "ERR_BROWSER_NOT_INSTALLED"}
DialogPayloads == {"undefined", "/a", "/b"}
\* code units a resolved path is made of ("/", "x"), the resolved paths of up to
\* MaxRealpath characters (the empty one: no resolved path), modification times
\* in milliseconds and sizes
PathUnits == {47, 120}
Realpaths == UNION {[1 .. n -> PathUnits] : n \in 0 .. MaxRealpath}
\* resolved paths at the limits of the flags field: 2^14 and 2^15 characters
LongRealpaths == {[i \in 1 .. n |-> 47] : n \in {16384, 32768}}
Mtimes == {0, 1, 1000}
Sizes == {0, 3, 4096}

\* cause codes of the errors the worker reports
CauseCodes == {"ENOENT", "EEXIST", "EPERM", "EIO", "EACCES", "EISDIR"}
FileContents == {<<66, 67>>}              \* byte contents written by callers
OtherContents == {<<69, 69, 69>>}         \* byte contents written by other processes
OsErrors == {"EPERM", "EIO"}              \* failures the OS may report on an existing path

\* byte contents the files read by readAllFiles can have, by path
ContentsOf(path) ==
    IF path = "/a" THEN {<<65, 92>>, <<195, 169, 34>>}
                   ELSE {<<0, 66>>}
ReadErrors == {"EIO"}                     \* failures of reading an existing file

\* FileSystemError
NOT_FOUND == "NotFound"
ALREADY_EXISTS == "AlreadyExists"
NOT_READABLE == "NotReadable"
UNKNOWN == "Unknown"
CONTENTS_MODIFIED == "ContentsModified"
NoError == "null"
ErrorKinds == {"InvalidParams", NOT_FOUND, NOT_READABLE, "NotWritable", "OutOfSpace",
               ALREADY_EXISTS, CONTENTS_MODIFIED, UNKNOWN}

VARIABLES
    MAX_CONNECTIONS,        \* process-wide configuration, fixed at load time
    _waitingRequests,       \* FIFO list of thunks
    _pendingRequests,       \* id -> thunk, admitted and not yet completed
    _pendingRequestCount,
    _requestCounter,
    startTimers,            \* ids whose setTimeout(start, SIMULATED_LATENCY_DELAY) is armed
    dequeueTimers,          \* number of armed setTimeout(_dequeueRequest, 0)
    calls,                  \* RPC calls issued and not yet settled
    submitted,              \* number of thunks submitted so far
    admitted,               \* sequence numbers of the thunks in order of admission
    ops,                    \* facade operations called so far (closure state and callbacks)
    windows,                \* the coalescing windows so far: registrations, flush, callbacks
    _changeCallback,        \* "undefined" until initWatchers
    _offlineCallback,
    _changeTimeout,         \* 0 (undefined or null) or the handle of the armed batch timer
    _pendingChanges,        \* the pending changes in insertion order: path, needsStats
    batchTimers,            \* handles of the batch timers armed and not yet fired
    notified,               \* number of raw notifications delivered so far
    fs,                     \* the worker's file system: path -> entry
    clock,                  \* the file system's current time (source of mtime)
    _watcherMap,            \* the worker's watchers: the set of watched paths
    _domainsLoaded,         \* connection-based facade: the command set is loaded
    deferred,               \* thunks attached to _nodeConnectionPromise, in order
    _nodeConnectionPromise, \* its state (pending, resolved, rejected) and rejection value
    closes,                 \* "close" events of the connection so far
    offlineCalls,           \* invocations of the offline callback so far
    watchers,               \* the watcher objects the worker created: path and state
    tracked,                \* paths watched successfully and not unwatched since
    input,                  \* the argument given to a translator or encoder
    output                  \* what the translator or encoder produced for it

schedVars == <<_waitingRequests, _pendingRequests, _pendingRequestCount,
               _requestCounter, startTimers, dequeueTimers, calls, submitted, admitted, ops,
               windows>>

watchVars == <<_changeCallback, _offlineCallback, _changeTimeout, _pendingChanges,
               batchTimers, notified>>

fsVars == <<fs, clock>>

chanVars == <<_watcherMap, _domainsLoaded, deferred, _nodeConnectionPromise>>

pureVars == <<input, output>>

offlineVars == <<closes, offlineCalls>>

workerVars == <<watchers, tracked>>

vars == <<MAX_CONNECTIONS, schedVars, fsVars, watchVars, chanVars, pureVars, offlineVars, workerVars>>

(***************************************************************************)
(* Values                                                                  *)
(***************************************************************************)
\* file system entries
NoFile == [kind |-> "none", data |-> <<>>, mtime |-> 0]
File(data, mtime) == [kind |-> "file", data |-> data, mtime |-> mtime]
Dir(mtime) == [kind |-> "dir", data |-> <<>>, mtime |-> mtime]

\* errors as the worker reports them: an OS error carries cause.code
OsErr(code) == [text |-> "", cause |-> code]
NoRawErr == [text |-> "", cause |-> "none"]

\* the worker's stat object and the facade's FileSystemStats
NoStatObj == [isFile |-> FALSE, mtime |-> -1, size |-> -1, realpath |-> ""]
NoStats == [isFile |-> FALSE, mtime |-> -1, size |-> -1, hash |-> -1, realPath |-> ""]

\* errors that are plain strings: no cause
StringErr(text) == [text |-> text, cause |-> "undefined"]

\* a rejection by the channel itself: an error without cause
RpcErr == [text |-> "rpc", cause |-> "undefined"]

\* the settled value of an RPC call; val names the kind of value it resolved with
NoRes == [ok |-> FALSE, err |-> NoRawErr, stats |-> NoStatObj, created |-> FALSE, list |-> <<>>,
          val |-> "undefined", bytes |-> <<>>]
Resolved(statObj, created) ==
    [NoRes EXCEPT !.ok = TRUE, !.stats = statObj, !.created = created, !.val = "statObj"]
ResolvedList(list) == [NoRes EXCEPT !.ok = TRUE, !.list = list, !.val = "list"]
ResolvedBuffer(bytes) == [NoRes EXCEPT !.ok = TRUE, !.bytes = bytes, !.val = "buffer"]
ResolvedValue(val) == [NoRes EXCEPT !.ok = TRUE, !.val = val]
Rejected(err) == [NoRes EXCEPT !.err = err]

\* options.hash of writeFile: absent, or a previously observed hash
NoHash == [has |-> FALSE, val |-> -1]
Hash(v) == [has |-> TRUE, val |-> v]

\* one invocation of a caller's callback: err is what stands in the error
\* position, value the kind of the second argument of exists
CallbackArgs(err, stats, created) ==
    [err |-> err, stats |-> stats, created |-> created, hasResults |-> FALSE, results |-> <<>>,
     value |-> "undefined", hasData |-> FALSE, data |-> <<>>]
CallbackResults(results) ==
    [err |-> NoError, stats |-> NoStats, created |-> "undefined",
     hasResults |-> TRUE, results |-> results, value |-> "undefined",
     hasData |-> FALSE, data |-> <<>>]
CallbackData(data, stats) ==
    [CallbackArgs(NoError, stats, "undefined") EXCEPT !.hasData = TRUE, !.data = data]
CallbackValue(err, value) == [CallbackArgs(err, NoStats, "undefined") EXCEPT !.value = value]

\* a raw error object of the worker or the channel handed to a callback as it is
RawErrorObject == "RawError"

\* one coalescing window: regs counts the registrations of each path, statRegs
\* those made with needsStats, keys and needs are the pending paths at the flush
\* (all, and those with needsStats), plain and withStats count the invocations
\* of the change callback
ZeroCount == [k \in ChangeKeys |-> 0]
NewWindow == [flushed |-> FALSE, hadCallback |-> FALSE, keys |-> {}, needs |-> {},
              regs |-> ZeroCount, statRegs |-> ZeroCount,
              plain |-> ZeroCount, withStats |-> ZeroCount]

\* the argument of a translator or encoder: fn names the function, code is an
\* error of the dialog vocabulary, err an error of the worker, stats and realpath
\* the arguments of the stat encoder; and what the function produced
NoInput == [fn |-> "none", code |-> "undefined", payload |-> "undefined", err |-> NoRawErr,
            stats |-> NoStatObj, realpath |-> <<>>,
            isLink |-> FALSE, entry |-> NoFile, encoding |-> "undefined"]
NoOutput == [done |-> FALSE, args |-> <<>>, kind |-> "unset", logged |-> FALSE,
             threw |-> FALSE, bytes |-> <<>>, binary |-> FALSE,
             obj |-> [isFile |-> FALSE, mtime |-> -1, size |-> -1, realpath |-> <<>>]]

\* _nodeConnectionPromise: connect, then _loadDomains
PendingPromise == [state |-> "pending", err |-> NoRawErr]
ResolvedPromise == [state |-> "resolved", err |-> NoRawErr]
RejectedPromise(err) == [state |-> "rejected", err |-> err]

\* the two promises _readFileHelper joins for one path, and the first rejection
PendingPart == [rd |-> "pending", data |-> <<>>, sd |-> "pending", stats |-> NoStatObj,
                rejected |-> FALSE, err |-> NoRawErr]

(***************************************************************************)
(* The scheduler, written as functions over a record of the scheduler      *)
(* state so that one handler can call another as the code does.            *)
(***************************************************************************)
Sched == [w |-> _waitingRequests, p |-> _pendingRequests, n |-> _pendingRequestCount,
          rc |-> _requestCounter, st |-> startTimers, dt |-> dequeueTimers,
          calls |-> calls, ns |-> submitted, adm |-> admitted, ops |-> ops,
          win |-> windows, cc |-> _changeCallback]

SetSched(S) ==
    /\ _waitingRequests' = S.w
    /\ _pendingRequests' = S.p
    /\ _pendingRequestCount' = S.n
    /\ _requestCounter' = S.rc
    /\ startTimers' = S.st
    /\ dequeueTimers' = S.dt
    /\ calls' = S.calls
    /\ submitted' = S.ns
    /\ admitted' = S.adm
    /\ ops' = S.ops
    /\ windows' = S.win

\* A thunk: seq is its submission number, cmd the RPC command it issues, op the
\* facade operation it belongs to (0: none), ret what the function returns.
Thunk(seq, cmd, op, ret) == [seq |-> seq, cmd |-> cmd, op |-> op, ret |-> ret]

\* Invoking a thunk issues exactly one RPC call.
NewCall(fn, S) ==
    [seq |-> fn.seq, cmd |-> fn.cmd, op |-> fn.op, always |-> {},
     wst |-> "sent", exists |-> FALSE, res |-> NoRes,
     parts |-> IF fn.cmd \in {"readAllFiles", "readFile"}
               THEN [i \in 1 .. Len(S.ops[fn.op].paths) |-> PendingPart]
               ELSE <<>>]

RunThunk(fn, S) ==
    [S EXCEPT !.calls = @ \cup {NewCall(fn, S)},
              !.ops = IF fn.op = 0 THEN @
                      ELSE [@ EXCEPT ![fn.op].rpcCalls = @ + 1,
                                     ![fn.op].writeCalls =
                                         IF fn.cmd = "writeFile" THEN @ + 1 ELSE @]]

\* _dequeueRequest with the head taken from the wrong end of the list.
_dequeueRequest_lifo(S) ==
    IF Len(S.w) > 0 /\ S.n <= MAX_CONNECTIONS
    THEN LET request == S.w[Len(S.w)]
             id == S.rc
         IN [S EXCEPT !.w = SubSeq(S.w, 1, Len(S.w) - 1),
                      !.rc = id + 1,
                      !.n = S.n + 1,
                      !.p = (id :> request) @@ S.p,
                      !.st = @ \cup {id},
                      !.adm = Append(@, request.seq)]
    ELSE S

_dequeueRequest(S) ==
    IF Len(S.w) > 0 /\ S.n <= MAX_CONNECTIONS
    THEN LET request == S.w[1]
             id == S.rc
         IN [S EXCEPT !.w = Tail(S.w),
                      !.rc = id + 1,
                      !.n = S.n + 1,
                      !.p = (id :> request) @@ S.p,
                      !.st = @ \cup {id},
                      !.adm = Append(@, request.seq)]
    ELSE S

\* _enqueueRequest that queues even when MAX_CONNECTIONS is the sentinel.
_enqueueRequest_noSentinel(fn, S) ==
    LET S1 == [S EXCEPT !.w = Append(@, fn), !.ns = fn.seq]
    IN IF Len(S1.w) > 1 THEN S1 ELSE _dequeueRequest(S1)

_enqueueRequest(fn, S) ==
    IF MAX_CONNECTIONS < 0
    THEN RunThunk(fn, [S EXCEPT !.ns = fn.seq])
    ELSE LET S1 == [S EXCEPT !.w = Append(@, fn), !.ns = fn.seq]
         IN IF Len(S1.w) > 1 THEN S1 ELSE _dequeueRequest(S1)

\* The timer callback armed by _dequeueRequest: request().always(...).
\* A thunk that returns no promise makes .always throw: the call has been
\* issued, but no completion handler is attached to it.
StartRequest(id, S) ==
    LET request == S.p[id]
        S1 == RunThunk(request, [S EXCEPT !.st = @ \ {id}])
    IN IF request.ret = "promise"
       THEN [S1 EXCEPT !.calls = (@ \ {NewCall(request, S)})
                                  \cup {[NewCall(request, S) EXCEPT !.always = {id}]}]
       ELSE S1

\* The always-handlers attached to a call (none, or the one of request id):
\* they run when the promise of the request settles.
AlwaysHandler(ids, S) ==
    IF ids = {} THEN S
    ELSE [S EXCEPT !.n = S.n - 1,
                   !.p = [i \in (DOMAIN S.p) \ ids |-> S.p[i]],
                   !.dt = S.dt + 1]

(***************************************************************************)
(* Error and stat translation of the facade                                *)
(***************************************************************************)
\* the values of the dialog vocabulary for which !err holds
Falsy == {"undefined", "null", "0"}

\* _mapError with a missing error translated like an unknown one
_mapError_noNull(err) ==
    CASE err = "ERR_INVALID_PARAMS" -> "InvalidParams"
      [] err = "ERR_NOT_FOUND" -> NOT_FOUND
      [] err = "ERR_CANT_READ" -> NOT_READABLE
      [] err = "ERR_CANT_WRITE" -> "NotWritable"
      [] err = "ERR_UNSUPPORTED_ENCODING" -> NOT_READABLE
      [] err = "ERR_OUT_OF_SPACE" -> "OutOfSpace"
      [] err = "ERR_FILE_EXISTS" -> ALREADY_EXISTS
      [] OTHER -> UNKNOWN

\* _mapError: the codes of appshell.fs, named as the constants that hold them
_mapError(err) ==
    IF err \in Falsy THEN NoError
    ELSE CASE err = "ERR_INVALID_PARAMS" -> "InvalidParams"
           [] err = "ERR_NOT_FOUND" -> NOT_FOUND
           [] err = "ERR_CANT_READ" -> NOT_READABLE
           [] err = "ERR_CANT_WRITE" -> "NotWritable"
           [] err = "ERR_UNSUPPORTED_ENCODING" -> NOT_READABLE
           [] err = "ERR_OUT_OF_SPACE" -> "OutOfSpace"
           [] err = "ERR_FILE_EXISTS" -> ALREADY_EXISTS
           [] OTHER -> UNKNOWN

\* the function _wrap(cb) returns, applied to args: what cb receives
_wrap(args) == [args EXCEPT ![1] = _mapError(args[1])]

\* err.cause && err.cause.code ("nocode": a cause that carries no code)
CauseCode(err) == IF err.cause \in {"none", "undefined", "nocode"} THEN "undefined" ELSE err.cause

\* _mapNodeError without the case of EPERM
_mapNodeError_noEperm(err) ==
    IF err = NoRawErr THEN UNKNOWN
    ELSE CASE CauseCode(err) = "ENOENT" -> NOT_FOUND
           [] CauseCode(err) = "EEXIST" -> ALREADY_EXISTS
           [] OTHER                     -> UNKNOWN

\* _mapNodeError (NoRawErr: the error is absent)
_mapNodeError(err) ==
    IF err = NoRawErr THEN UNKNOWN
    ELSE CASE CauseCode(err) = "ENOENT" -> NOT_FOUND
           [] CauseCode(err) = "EEXIST" -> ALREADY_EXISTS
           [] CauseCode(err) = "EPERM"  -> NOT_READABLE
           [] OTHER                     -> UNKNOWN

\* whether _mapNodeError writes its "Unknown node error" record for err
_mapNodeErrorLogs(err) ==
    /\ err # NoRawErr
    /\ CauseCode(err) \notin {"ENOENT", "EEXIST", "EPERM"}

_mapNodeStats(stats) ==
    [isFile |-> stats.isFile, mtime |-> stats.mtime, size |-> stats.size,
     hash |-> stats.mtime, realPath |-> stats.realpath]

(***************************************************************************)
(* The worker: binary encoding of a stat record                            *)
(***************************************************************************)
\* the n lowest bits of v, highest first
RECURSIVE Bits(_, _)
Bits(v, n) == IF n = 0 THEN <<>> ELSE Append(Bits(v \div 2, n - 1), v % 2)

\* the number a sequence of bits stands for, highest first
RECURSIVE BitsValue(_)
BitsValue(b) ==
    IF b = <<>> THEN 0 ELSE 2 * BitsValue(SubSeq(b, 1, Len(b) - 1)) + b[Len(b)]

RECURSIVE Log2(_)
Log2(v) == IF v <= 1 THEN 0 ELSE 1 + Log2(v \div 2)

RECURSIVE Pow2(_)
Pow2(e) == IF e = 0 THEN 1 ELSE 2 * Pow2(e - 1)

Zeros(n) == [i \in 1 .. n |-> 0]

\* the 64 bits of the IEEE 754 double that holds the natural number v < 2^30:
\* sign, 11 bits of biased exponent, 52 bits of fraction
DoubleBits(v) ==
    IF v = 0 THEN Zeros(64)
    ELSE LET e == Log2(v)
         IN <<0>> \o Bits(1023 + e, 11) \o Bits(v - Pow2(e), e) \o Zeros(52 - e)

\* Buffer.writeDoubleLE: the eight bytes of the double, lowest first
writeDoubleLE(v) ==
    LET b == DoubleBits(v)
    IN [k \in 1 .. 8 |-> BitsValue(SubSeq(b, 8 * (8 - k) + 1, 8 * (8 - k) + 8))]

\* Buffer.writeUInt16LE at a 0-based offset
writeUInt16LE(buffer, v, offset) ==
    [buffer EXCEPT ![offset + 1] = v % 256, ![offset + 2] = v \div 256]

\* the result of an encoding: the buffer, or an exception
Encoded(bytes) == [threw |-> FALSE, bytes |-> bytes]
Thrown == [threw |-> TRUE, bytes |-> <<>>]

\* the loop of _getStatsBuffer from index i on; a write that does not fit into
\* the buffer throws
RECURSIVE WriteRealpath(_, _, _, _)
WriteRealpath(buffer, realpath, i, realpathBytes) ==
    IF i >= realpathBytes THEN Encoded(buffer)
    ELSE IF (2 * i) + 18 + 2 > Len(buffer) THEN Thrown
    ELSE WriteRealpath(writeUInt16LE(buffer, realpath[i + 1], (2 * i) + 18),
                       realpath, i + 1, realpathBytes)

\* _getStatsBuffer(stats, realpath); strict: a failed console.assert throws
_getStatsBuffer(stats, realpath, strict) ==
    LET realpathBytes == Len(realpath) * 2
        fileBit == IF stats.isFile THEN 1 ELSE 0
        flags == (realpathBytes * 2) + fileBit
        buffer == writeDoubleLE(stats.mtime) \o writeDoubleLE(stats.size)
                     \o Zeros(2 + realpathBytes)
    IN IF strict /\ ~(realpathBytes < 32768) THEN Thrown
       ELSE IF flags > 65535 THEN Thrown
       ELSE WriteRealpath(writeUInt16LE(buffer, flags, 16), realpath, 0, realpathBytes)

\* Buffer.readDoubleLE for a double that holds a natural number; -1 otherwise
readDoubleLE(bytes) ==
    LET b == Bits(bytes[8], 8) \o Bits(bytes[7], 8) \o Bits(bytes[6], 8) \o Bits(bytes[5], 8)
                \o Bits(bytes[4], 8) \o Bits(bytes[3], 8) \o Bits(bytes[2], 8) \o Bits(bytes[1], 8)
        e == BitsValue(SubSeq(b, 2, 12)) - 1023
    IN IF b = Zeros(64) THEN 0
       ELSE IF b[1] = 1 \/ e < 0 \/ e > 30 \/ SubSeq(b, 13 + e, 64) # Zeros(52 - e) THEN -1
       ELSE Pow2(e) + BitsValue(SubSeq(b, 13, 12 + e))

\* the reading of a buffer by the layout of the binary stat record: 8 bytes of
\* mtime, 8 bytes of size, 2 bytes of flags (the lowest bit: file, the other 15:
\* the length R of the resolved path), R code units of 2 bytes
NoDecoded == [ok |-> FALSE, isFile |-> FALSE, mtime |-> -1, size |-> -1, realpath |-> <<>>]
decodeStats(bytes) ==
    IF Len(bytes) < 18 THEN NoDecoded
    ELSE LET flags == bytes[17] + (256 * bytes[18])
             R == flags \div 2
         IN IF Len(bytes) # 18 + (2 * R) THEN NoDecoded
            ELSE [ok |-> TRUE, isFile |-> flags % 2 = 1,
                  mtime |-> readDoubleLE(SubSeq(bytes, 1, 8)),
                  size |-> readDoubleLE(SubSeq(bytes, 9, 16)),
                  realpath |-> [i \in 1 .. R |-> bytes[17 + (2 * i)] + (256 * bytes[18 + (2 * i)])]]

(***************************************************************************)
(* The worker: stat helper                                                 *)
(***************************************************************************)
_getStatsObject(entry, realpath) ==
    [isFile |-> entry.kind # "dir", mtime |-> entry.mtime,
     size |-> Len(entry.data), realpath |-> realpath]

\* path without its trailing slash (the paths of the model that end in one)
StripSlash(path) == IF path = "/d/" THEN "/d" ELSE path

\* realpath[realpath - 1]: the index is not a number, the value is undefined
CharAtRealpathMinusOne(realpath) == -1

\* _formatStats(encoding, stats, realpath); no realpath: the empty one
_formatStats(encoding, entry, realpath, strict) ==
    IF encoding = "null"
    THEN LET r == _getStatsBuffer(_getStatsObject(entry, <<>>), realpath, strict)
         IN [NoOutput EXCEPT !.done = TRUE, !.binary = TRUE, !.threw = r.threw, !.bytes = r.bytes]
    ELSE [NoOutput EXCEPT !.done = TRUE, !.obj = _getStatsObject(entry, realpath)]

\* the callback of _statHelper for the result of lstat: isLink tells whether it
\* is a symbolic link, entry is what stat finds (the target of a link), realpath
\* what fs.realpath answers for a link
_statHelperThen(isLink, entry, realpath, encoding, strict) ==
    IF isLink
    THEN _formatStats(encoding, entry,
                      IF entry.kind = "dir" /\ CharAtRealpathMinusOne(realpath) # 47
                      THEN realpath \o <<47>> ELSE realpath,
                      strict)
    ELSE _formatStats(encoding, entry, <<>>, strict)

\* what lstat can answer for a path of the file system F
LstatOutcomes(F, path) ==
    IF F[StripSlash(path)].kind = "none" THEN {"ENOENT"} ELSE {"ok"} \cup OsErrors

\* _statHelper in text mode for a path that is not a symbolic link
_statHelper(F, path, out) ==
    IF out = "ok" THEN Resolved(_getStatsObject(F[StripSlash(path)], ""), FALSE)
    ELSE Rejected(OsErr(out))

\* the handler registered for each command name (init)
registeredCommand(name) ==
    CASE name = "stat" -> "statCmd"
      [] name = "exists" -> "statCmd"
      [] name = "writeFile" -> "writeFileCmd"
      [] name = "readAllFiles" -> "readAllFilesCmd"
      [] name = "unlink" -> "unlinkCmd"
      [] name = "watchPath" -> "watchPath"
      [] name = "unwatchPath" -> "unwatchPath"
      [] name = "unwatchAll" -> "unwatchAll"
      [] OTHER -> "none"

\* what starting a watcher can do: it throws for a missing path; for a missing
\* argument fs.watch throws, fsevents may throw or watch
WatchOutcomes(F, path) ==
    IF path = "undefined" THEN {"throws", "ok"}
    ELSE IF F[StripSlash(path)].kind = "none" THEN {"throws"}
    ELSE {"ok"}

\* watchPath of the worker: the watcher map after the command
watchPathCmd(map, path, out) ==
    IF path \in map THEN map
    ELSE IF out = "ok" THEN map \cup {path}
    ELSE map

\* unwatchPath of the worker
unwatchPathCmd(map, path) == map \ {path}

\* a watcher object as fs.watch or fsevents returns it
Watcher(path) == [path |-> path, state |-> "open"]

\* watcher.close() or watcher.stop() on the watcher the map holds for the path
StopWatcher(ws, path, stop) ==
    [i \in DOMAIN ws |->
        IF ws[i].path = path /\ ws[i].state = "open"
        THEN [ws[i] EXCEPT !.state = IF stop = "ok" THEN "closed" ELSE "failed"]
        ELSE ws[i]]

\* unwatchPath with the worker's watcher objects: the entry stays when stopping
\* the watcher throws (the delete of the finally clause left out)
workerUnwatchPath_keepOnFail(W, path, stop) ==
    IF path \in W.map
    THEN [map |-> IF stop = "ok" THEN unwatchPathCmd(W.map, path) ELSE W.map,
          ws |-> StopWatcher(W.ws, path, stop)]
    ELSE W

\* unwatchPath with the worker's watcher objects: stop the watcher, delete the
\* entry also when stopping throws
workerUnwatchPath(W, path, stop) ==
    IF path \in W.map
    THEN [map |-> unwatchPathCmd(W.map, path), ws |-> StopWatcher(W.ws, path, stop)]
    ELSE W

\* watchPath with the worker's watcher objects
workerWatchPath(W, path, out) ==
    IF path \in W.map THEN W
    ELSE [map |-> watchPathCmd(W.map, path, out),
          ws |-> IF out = "ok" THEN Append(W.ws, Watcher(path)) ELSE W.ws]

\* unwatchAll: unwatchPath for every path of the map
RECURSIVE workerUnwatchAll(_, _, _)
workerUnwatchAll(W, todo, stops) ==
    IF todo = {} THEN W
    ELSE LET path == CHOOSE q \in todo : TRUE
         IN workerUnwatchAll(workerUnwatchPath(W, path, stops[path]), todo \ {path}, stops)

(***************************************************************************)
(* Facade operations: closure state and continuation callbacks             *)
(***************************************************************************)
\* finishArg is the argument given to _finishWrite, seenErr / seenHash what
\* the initial stat of writeFile delivered, cb the invocations of the caller's
\* callback, rpcCalls / writeCalls the number of calls (of writeFile calls) sent
\* to the worker, obs what the worker's promises for each path settled with.
NewOp(kind, path, data, hash) ==
    [kind |-> kind, path |-> path, paths |-> <<>>, data |-> data, hash |-> hash, win |-> 0,
     optEncoding |-> "undefined", encoding |-> "undefined",
     finishArg |-> "unset", seenErr |-> "unset", seenHash |-> -1, quiet |-> FALSE,
     rpcCalls |-> 0, writeCalls |-> 0, sentAt |-> 0, waited |-> FALSE,
     obs |-> <<>>, cb |-> <<>>]

Callback(o, args, S) == [S EXCEPT !.ops[o].cb = Append(@, args)]

\* var encoding = options.encoding || "utf8" of readFile, readAllFiles, writeFile
EncodingArgument(o, S) ==
    [S EXCEPT !.ops[o].encoding = IF S.ops[o].optEncoding \in {"undefined", "null"}
                                  THEN "utf8" ELSE S.ops[o].optEncoding]

\* stat(path, callback)
stat(o, S) == _enqueueRequest(Thunk(S.ns + 1, "stat", o, "undefined"), S)

\* _finishWrite(created) of writeFile
_finishWrite(o, created, S) ==
    _enqueueRequest(Thunk(S.ns + 1, "writeFile", o, "undefined"),
                    EncodingArgument(o, [S EXCEPT !.ops[o].finishArg =
                                                     IF created THEN "true" ELSE "false"]))

\* the callback writeFile hands to its initial stat, without the hash check
writeFileStatCallback_blind(o, err, stats, S) ==
    LET S1 == [S EXCEPT !.ops[o].seenErr = err, !.ops[o].seenHash = stats.hash]
    IN IF err # NoError
       THEN IF err = NOT_FOUND
            THEN _finishWrite(o, TRUE, S1)
            ELSE Callback(o, CallbackArgs(err, NoStats, "undefined"), S1)
       ELSE _finishWrite(o, FALSE, S1)

\* the callback writeFile hands to its initial stat, writing on every stat error
writeFileStatCallback_anyErr(o, err, stats, S) ==
    LET S1 == [S EXCEPT !.ops[o].seenErr = err, !.ops[o].seenHash = stats.hash]
        options == S.ops[o].hash
    IN IF err # NoError
       THEN _finishWrite(o, TRUE, S1)
       ELSE IF options.has /\ options.val # stats.hash
            THEN Callback(o, CallbackArgs(CONTENTS_MODIFIED, NoStats, "undefined"), S1)
            ELSE _finishWrite(o, FALSE, S1)

\* the callback writeFile hands to its initial stat
writeFileStatCallback(o, err, stats, S) ==
    LET S1 == [S EXCEPT !.ops[o].seenErr = err, !.ops[o].seenHash = stats.hash]
        options == S.ops[o].hash
    IN IF err # NoError
       THEN IF err = NOT_FOUND
            THEN _finishWrite(o, TRUE, S1)
            ELSE Callback(o, CallbackArgs(err, NoStats, "undefined"), S1)
       ELSE IF options.has /\ options.val # stats.hash
            THEN Callback(o, CallbackArgs(CONTENTS_MODIFIED, NoStats, "undefined"), S1)
            ELSE _finishWrite(o, FALSE, S1)

\* _changeCallback(path) or _changeCallback(path, stats) for window w
ChangeCallback(w, path, hasStats, S) ==
    IF hasStats
    THEN [S EXCEPT !.win[w].withStats[path] = @ + 1]
    ELSE [S EXCEPT !.win[w].plain[path] = @ + 1]

\* the callback the flush hands to stat, without the return after the warning
\* the stat callback of the flush asking for the stat once more after an error
changeStatCallback_retry(o, err, stats, S) ==
    LET S1 == [S EXCEPT !.ops[o].seenErr = err]
    IN IF err # NoError
       THEN IF S.ops[o].rpcCalls < 2 THEN stat(o, S1) ELSE S1
       ELSE IF S.cc = "undefined" THEN S1
       ELSE ChangeCallback(S.ops[o].win, S.ops[o].path, TRUE, S1)

changeStatCallback_noReturn(o, err, stats, S) ==
    LET S1 == [S EXCEPT !.ops[o].seenErr = err]
    IN IF S.cc = "undefined" THEN S1
       ELSE ChangeCallback(S.ops[o].win, S.ops[o].path, TRUE, S1)

\* the callback the flush hands to stat (calling an undefined _changeCallback
\* throws and invokes nothing)
changeStatCallback(o, err, stats, S) ==
    LET S1 == [S EXCEPT !.ops[o].seenErr = err]
    IN IF err # NoError THEN S1
       ELSE IF S.cc = "undefined" THEN S1
       ELSE ChangeCallback(S.ops[o].win, S.ops[o].path, TRUE, S1)

\* done / fail handlers of the stat call, by the operation that asked for it
StatSettled(o, res, S) ==
    LET err == IF res.ok THEN NoError ELSE _mapNodeError(res.err)
        stats == IF res.ok THEN _mapNodeStats(res.stats) ELSE NoStats
    IN CASE S.ops[o].kind = "writeFile" -> writeFileStatCallback(o, err, stats, S)
         [] S.ops[o].kind = "changeStat" -> changeStatCallback(o, err, stats, S)
         [] OTHER -> Callback(o, CallbackArgs(err, stats, "undefined"), S)

\* exists(path, callback)
exists(o, S) == _enqueueRequest(Thunk(S.ns + 1, "exists", o, "undefined"), S)

\* done / fail handlers of the exists call (seenErr keeps the cause the call
\* was answered with)
ExistsSettled(o, res, S) ==
    IF res.ok
    THEN Callback(o, CallbackValue(NoError, res.val), [S EXCEPT !.ops[o].seenErr = NoError])
    ELSE Callback(o, CallbackValue(_mapNodeError(res.err), "undefined"),
                  [S EXCEPT !.ops[o].seenErr = res.err.cause])

\* unlink(path, callback)
unlink(o, S) == _enqueueRequest(Thunk(S.ns + 1, "unlink", o, "undefined"), S)

\* done(callback) and the fail handler of the unlink call
UnlinkSettled(o, res, S) ==
    IF res.ok
    THEN Callback(o, CallbackValue(res.val, "undefined"), S)
    ELSE Callback(o, CallbackValue(_mapNodeError(res.err), "undefined"), S)

\* watchPath(path, callback), unwatchPath(path, callback), unwatchAll(callback)
watchPath(o, S) == _enqueueRequest(Thunk(S.ns + 1, "watchPath", o, "undefined"), S)

unwatchPath(o, S) == _enqueueRequest(Thunk(S.ns + 1, "unwatchPath", o, "undefined"), S)

unwatchAll(o, S) == _enqueueRequest(Thunk(S.ns + 1, "watchPath", o, "undefined"), S)

\* the argument the call of an operation carries: unwatchAll passes none
Argument(op) == IF op.kind = "unwatchAll" THEN "undefined" ELSE op.path

\* done(callback).fail(callback) of the three watch operations
WatchSettled(o, res, S) ==
    IF res.ok
    THEN Callback(o, CallbackValue(res.val, "undefined"), S)
    ELSE Callback(o, CallbackValue(RawErrorObject, "undefined"), S)

\* done / fail handlers of the writeFile call
\* done / fail handlers of the writeFile call comparing the token once more
\* with the hash of the record the worker returns
WriteSettled_recheck(o, res, S) ==
    IF res.ok
    THEN IF S.ops[o].hash.has /\ S.ops[o].hash.val # _mapNodeStats(res.stats).hash
         THEN Callback(o, CallbackArgs(CONTENTS_MODIFIED, NoStats, "undefined"), S)
         ELSE Callback(o, CallbackArgs(NoError, _mapNodeStats(res.stats),
                                       IF res.created THEN "true" ELSE "false"), S)
    ELSE Callback(o, CallbackArgs(_mapNodeError(res.err), NoStats, "undefined"), S)

WriteSettled(o, res, S) ==
    IF res.ok
    THEN Callback(o, CallbackArgs(NoError, _mapNodeStats(res.stats),
                                  IF res.created THEN "true" ELSE "false"), S)
    ELSE Callback(o, CallbackArgs(_mapNodeError(res.err), NoStats, "undefined"), S)

(***************************************************************************)
(* Actions of the scheduler                                                *)
(***************************************************************************)
\* submit(task) for a task that returns the promise of its RPC call
Submit ==
    /\ submitted < MaxRequests
    /\ SetSched(_enqueueRequest(Thunk(submitted + 1, "task", 0, "promise"), Sched))
    /\ UNCHANGED <<MAX_CONNECTIONS, fsVars, watchVars, chanVars, pureVars, offlineVars, workerVars>>

TimerStart ==
    /\ \E id \in startTimers : SetSched(StartRequest(id, Sched))
    /\ UNCHANGED <<MAX_CONNECTIONS, fsVars, watchVars, chanVars, pureVars, offlineVars, workerVars>>

TimerDequeue ==
    /\ dequeueTimers > 0
    /\ SetSched(_dequeueRequest([Sched EXCEPT !.dt = @ - 1]))
    /\ UNCHANGED <<MAX_CONNECTIONS, fsVars, watchVars, chanVars, pureVars, offlineVars, workerVars>>

\* the RPC call of a task settles (resolved or rejected: always() runs on both)
TaskSettle ==
    /\ \E c \in calls :
          /\ c.cmd = "task"
          /\ SetSched(AlwaysHandler(c.always, [Sched EXCEPT !.calls = @ \ {c}]))
    /\ UNCHANGED <<MAX_CONNECTIONS, fsVars, watchVars, chanVars, pureVars, offlineVars, workerVars>>

(***************************************************************************)
(* Text transfer: _strencode on the worker, strdecode on the facade        *)
(***************************************************************************)
IsCont(b) == b >= 128 /\ b <= 191

\* Buffer.toString("utf8") / decodeURIComponent(escape(s)): bytes to code points
\* (one to three byte sequences; a malformed byte decodes to U+FFFD)
RECURSIVE Utf8Decode(_)
Utf8Decode(bytes) ==
    IF bytes = <<>> THEN <<>>
    ELSE LET b == bytes[1]
             n == Len(bytes)
         IN IF b < 128
            THEN <<b>> \o Utf8Decode(Tail(bytes))
            ELSE IF b >= 194 /\ b <= 223 /\ n >= 2 /\ IsCont(bytes[2])
            THEN <<(b - 192) * 64 + (bytes[2] - 128)>> \o Utf8Decode(SubSeq(bytes, 3, n))
            ELSE IF b >= 224 /\ b <= 239 /\ n >= 3 /\ IsCont(bytes[2]) /\ IsCont(bytes[3])
            THEN <<(b - 224) * 4096 + (bytes[2] - 128) * 64 + (bytes[3] - 128)>>
                    \o Utf8Decode(SubSeq(bytes, 4, n))
            ELSE <<65533>> \o Utf8Decode(Tail(bytes))

\* unescape(encodeURIComponent(s)): code points to bytes
RECURSIVE Utf8Encode(_)
Utf8Encode(cps) ==
    IF cps = <<>> THEN <<>>
    ELSE LET c == cps[1]
         IN (IF c < 128 THEN <<c>>
             ELSE IF c < 2048 THEN <<192 + (c \div 64), 128 + (c % 64)>>
             ELSE <<224 + (c \div 4096), 128 + ((c \div 64) % 64), 128 + (c % 64)>>)
            \o Utf8Encode(Tail(cps))

HexDigit(d) == IF d < 10 THEN 48 + d ELSE 87 + d
HexValue(c) == IF c >= 97 THEN c - 87 ELSE c - 48

\* JSON.stringify of one character of a string
JsonEscape(c) ==
    CASE c = 34 -> <<92, 34>>
      [] c = 92 -> <<92, 92>>
      [] c = 8  -> <<92, 98>>
      [] c = 9  -> <<92, 116>>
      [] c = 10 -> <<92, 110>>
      [] c = 12 -> <<92, 102>>
      [] c = 13 -> <<92, 114>>
      [] c < 32 /\ c \notin {8, 9, 10, 12, 13} ->
             <<92, 117, 48, 48, HexDigit(c \div 16), HexDigit(c % 16)>>
      [] OTHER -> <<c>>

RECURSIVE JsonEscapeAll(_)
JsonEscapeAll(cps) ==
    IF cps = <<>> THEN <<>> ELSE JsonEscape(cps[1]) \o JsonEscapeAll(Tail(cps))

JsonStringify(cps) == <<34>> \o JsonEscapeAll(cps) \o <<34>>

\* JSON.parse of the inside of a string literal
RECURSIVE JsonUnescapeAll(_)
JsonUnescapeAll(cps) ==
    IF cps = <<>> THEN <<>>
    ELSE IF cps[1] = 92 /\ Len(cps) >= 2
    THEN LET e == cps[2]
         IN IF e = 117 /\ Len(cps) >= 6
            THEN <<HexValue(cps[3]) * 4096 + HexValue(cps[4]) * 256
                    + HexValue(cps[5]) * 16 + HexValue(cps[6])>>
                    \o JsonUnescapeAll(SubSeq(cps, 7, Len(cps)))
            ELSE <<CASE e = 98 -> 8 [] e = 116 -> 9 [] e = 110 -> 10
                     [] e = 102 -> 12 [] e = 114 -> 13 [] OTHER -> e>>
                    \o JsonUnescapeAll(SubSeq(cps, 3, Len(cps)))
    ELSE <<cps[1]>> \o JsonUnescapeAll(Tail(cps))

JsonParse(cps) == JsonUnescapeAll(SubSeq(cps, 2, Len(cps) - 1))

_strencode(data) == Utf8Encode(JsonStringify(data))

strdecode(data) == JsonParse(Utf8Decode(data))

(***************************************************************************)
(* readAllFiles: worker command and facade decoding                        *)
(***************************************************************************)
Min(a, b) == IF a < b THEN a ELSE b

\* isBinaryFile(data, size) of the isbinaryfile package: an empty file is text,
\* a NUL byte among the first size bytes makes the content binary
isBinaryFile(data, size) ==
    size > 0 /\ \E i \in 1 .. Min(size, Len(data)) : data[i] = 0

\* what fs.readFile can answer for a path
ReadOutcomes(F, path) ==
    IF F[path].kind = "none" THEN {"ENOENT"}
    ELSE IF F[path].kind = "dir" THEN {"EISDIR"}
    ELSE {"ok"} \cup ReadErrors

PartSettled(part) == part.rd # "pending" /\ part.sd # "pending"

\* one element of the response list
Element(hasErr, err, data, stats) ==
    [hasErr |-> hasErr, err |-> err, data |-> data, stats |-> stats]

\* _readFileHelper in text mode, then the inspector mapping of readAllFilesCmd:
\* the element sent for one path
_readFileHelper(part) ==
    IF part.rejected
    THEN Element(TRUE, part.err, <<>>, NoStatObj)
    ELSE IF isBinaryFile(part.data, part.stats.size)
    THEN Element(TRUE, StringErr("Binary file"), <<>>, NoStatObj)
    ELSE Element(FALSE, NoRawErr, _strencode(Utf8Decode(part.data)), part.stats)

\* readAllFilesCmd rejecting the batch when one path fails (Promise.all)
readAllFilesCmd_all(parts) ==
    LET responses == [i \in 1 .. Len(parts) |-> _readFileHelper(parts[i])]
    IN IF \E i \in 1 .. Len(parts) : responses[i].hasErr
       THEN Rejected(responses[CHOOSE i \in 1 .. Len(parts) : responses[i].hasErr].err)
       ELSE ResolvedList(responses)

\* readAllFilesCmd in text mode: Promise.settle, one response per path, in order
readAllFilesCmd(parts) ==
    ResolvedList([i \in 1 .. Len(parts) |-> _readFileHelper(parts[i])])

\* readFileCmd in text mode: the promise of _readFileHelper handed to the channel
readFileCmd(part) ==
    LET response == _readFileHelper(part)
    IN IF response.hasErr THEN Rejected(response.err)
       ELSE [Resolved(response.stats, FALSE) EXCEPT !.list = <<response>>]

\* _readFileHelper with encoding null for a path that is not a symbolic link:
\* the stat buffer of _statHelper followed by the bytes read
_readFileBuffer(part) ==
    _getStatsBuffer(part.stats, <<>>, FALSE).bytes \o part.data

\* the blocks of readAllFilesCmd with encoding null, from the i-th path on: the
\* byte 1 for a rejected promise, the byte 0 and the value of a fulfilled one
RECURSIVE ConcatBlocks(_, _)
ConcatBlocks(parts, i) ==
    IF i > Len(parts) THEN <<>>
    ELSE (IF parts[i].rejected THEN <<1>> ELSE <<0>> \o _readFileBuffer(parts[i]))
            \o ConcatBlocks(parts, i + 1)

\* readAllFilesCmd with encoding null: Buffer.concat of the blocks
readAllFilesBuffer(parts) == ResolvedBuffer(ConcatBlocks(parts, 1))

\* the sequential reading of a binary batch of n entries: one status byte, and
\* after a 0 one binary stat record whose size field gives the number of content
\* bytes that follow; Unreadable when the buffer does not end with the n-th entry
Unreadable == <<[failed |-> TRUE, isFile |-> FALSE, mtime |-> -1, size |-> -1, data |-> <<-1>>]>>
RECURSIVE decodeBatch(_, _)
decodeBatch(bytes, n) ==
    IF n = 0 THEN (IF bytes = <<>> THEN <<>> ELSE Unreadable)
    ELSE IF bytes = <<>> THEN Unreadable
    ELSE IF bytes[1] = 1
    THEN <<[failed |-> TRUE, isFile |-> FALSE, mtime |-> -1, size |-> -1, data |-> <<>>]>>
            \o decodeBatch(Tail(bytes), n - 1)
    ELSE IF bytes[1] # 0 \/ Len(bytes) < 19 THEN Unreadable
    ELSE LET R == (bytes[18] + (256 * bytes[19])) \div 2
             st == IF Len(bytes) < 19 + (2 * R) THEN NoDecoded
                   ELSE decodeStats(SubSeq(bytes, 2, 19 + (2 * R)))
         IN IF ~st.ok \/ st.size < 0 \/ Len(bytes) < 19 + (2 * R) + st.size THEN Unreadable
            ELSE <<[failed |-> FALSE, isFile |-> st.isFile, mtime |-> st.mtime, size |-> st.size,
                    data |-> SubSeq(bytes, 20 + (2 * R), 19 + (2 * R) + st.size)]>>
                    \o decodeBatch(SubSeq(bytes, 20 + (2 * R) + st.size, Len(bytes)), n - 1)

\* one entry of mappedResults
Result(err, data, stats) == [err |-> err, data |-> data, stats |-> stats]

\* the mapping of the facade over the response list
MapResult(obj) ==
    IF obj.hasErr
    THEN Result(_mapNodeError(obj.err), <<>>, NoStats)
    ELSE Result(NoError, strdecode(obj.data), _mapNodeStats(obj.stats))

\* done / fail handlers of the readAllFiles call
ReadAllSettled(o, res, S) ==
    IF res.ok
    THEN Callback(o, CallbackResults([i \in 1 .. Len(res.list) |-> MapResult(res.list[i])]), S)
    ELSE Callback(o, CallbackArgs(_mapNodeError(res.err), NoStats, "undefined"), S)

\* done / fail handlers of the readFile call
ReadFileSettled(o, res, S) ==
    IF res.ok
    THEN Callback(o, CallbackData(strdecode(res.list[1].data), _mapNodeStats(res.stats)), S)
    ELSE Callback(o, CallbackArgs(_mapNodeError(res.err), NoStats, "undefined"), S)

\* readFile(path, options, callback) with a text encoding
readFile(o, S) ==
    _enqueueRequest(Thunk(S.ns + 1, "readFile", o, "undefined"), EncodingArgument(o, S))

\* readAllFiles(paths, options, callback)
readAllFiles(o, S) ==
    _enqueueRequest(Thunk(S.ns + 1, "readAllFiles", o, "undefined"), EncodingArgument(o, S))

(***************************************************************************)
(* The change coalescer                                                    *)
(***************************************************************************)
Coalescer == [pc |-> _pendingChanges, ct |-> _changeTimeout, bt |-> batchTimers,
              win |-> windows]

IndexOf(pc, path) ==
    IF \E i \in 1 .. Len(pc) : pc[i].path = path
    THEN CHOOSE i \in 1 .. Len(pc) : pc[i].path = path
    ELSE 0

\* _enqueueChange with the flag of the last registration replacing the old one
\* _enqueueChange with the test of _changeTimeout left out: every registration
\* arms a timer of its own
_enqueueChange_rearm(change, needsStats, W) ==
    LET i == IndexOf(W.pc, change)
        pc1 == IF i = 0
               THEN Append(W.pc, [path |-> change, needsStats |-> needsStats])
               ELSE [W.pc EXCEPT ![i].needsStats = @ \/ needsStats]
        w == Len(W.win) + 1
    IN [pc |-> pc1, ct |-> w,
        bt |-> W.bt \cup {w},
        win |-> [Append(W.win, NewWindow)
                    EXCEPT ![w].regs[change] = @ + 1,
                           ![w].statRegs[change] = IF needsStats THEN @ + 1 ELSE @]]

_enqueueChange_lastWins(change, needsStats, W) ==
    LET i == IndexOf(W.pc, change)
        pc1 == IF i = 0
               THEN Append(W.pc, [path |-> change, needsStats |-> needsStats])
               ELSE [W.pc EXCEPT ![i].needsStats = needsStats]
        arm == W.ct = 0
        w == IF arm THEN Len(W.win) + 1 ELSE W.ct
        win1 == IF arm THEN Append(W.win, NewWindow) ELSE W.win
    IN [pc |-> pc1, ct |-> w,
        bt |-> IF arm THEN W.bt \cup {w} ELSE W.bt,
        win |-> [win1 EXCEPT ![w].regs[change] = @ + 1,
                             ![w].statRegs[change] = IF needsStats THEN @ + 1 ELSE @]]

\* _enqueueChange: the registration, and the batch timer if none is armed
_enqueueChange(change, needsStats, W) ==
    LET i == IndexOf(W.pc, change)
        pc1 == IF i = 0
               THEN Append(W.pc, [path |-> change, needsStats |-> needsStats])
               ELSE [W.pc EXCEPT ![i].needsStats = @ \/ needsStats]
        arm == W.ct = 0
        w == IF arm THEN Len(W.win) + 1 ELSE W.ct
        win1 == IF arm THEN Append(W.win, NewWindow) ELSE W.win
    IN [pc |-> pc1, ct |-> w,
        bt |-> IF arm THEN W.bt \cup {w} ELSE W.bt,
        win |-> [win1 EXCEPT ![w].regs[change] = @ + 1,
                             ![w].statRegs[change] = IF needsStats THEN @ + 1 ELSE @]]

\* _fileWatcherChange without the test of the filename
_fileWatcherChange_anyName(path, event, filename, W) ==
    IF event = "change"
    THEN _enqueueChange(path \o filename, TRUE, W)
    ELSE IF event = "rename" THEN _enqueueChange(path, FALSE, W)
    ELSE W

_fileWatcherChange(path, event, filename, W) ==
    IF event = "change"
    THEN IF filename # "" THEN _enqueueChange(path \o filename, TRUE, W) ELSE W
    ELSE IF event = "rename" THEN _enqueueChange(path, FALSE, W)
    ELSE W

\* the body of the forEach of the flush, with the else branch run on every path
FlushEntry_noElse(entry, w, S) ==
    LET S1 == IF entry.needsStats
              THEN stat(Len(S.ops) + 1,
                        [S EXCEPT !.ops = Append(@, [NewOp("changeStat", entry.path, <<>>, NoHash)
                                                       EXCEPT !.win = w])])
              ELSE S
    IN ChangeCallback(w, entry.path, FALSE, S1)

\* the body of the forEach of the flush for one pending path
FlushEntry(entry, w, S) ==
    IF entry.needsStats
    THEN stat(Len(S.ops) + 1,
              [S EXCEPT !.ops = Append(@, [NewOp("changeStat", entry.path, <<>>, NoHash)
                                             EXCEPT !.win = w])])
    ELSE ChangeCallback(w, entry.path, FALSE, S)

RECURSIVE FlushEntries(_, _, _)
FlushEntries(entries, w, S) ==
    IF entries = <<>> THEN S
    ELSE FlushEntries(Tail(entries), w, FlushEntry(Head(entries), w, S))

\* the timer callback without the test of _changeCallback
FlushCallback_always(w, pc, S) ==
    FlushEntries(pc, w, [S EXCEPT !.win[w].flushed = TRUE,
                                  !.win[w].hadCallback = S.cc # "undefined",
                                  !.win[w].keys = {pc[i].path : i \in 1 .. Len(pc)}])

\* the timer callback of _enqueueChange, up to the reset of the timer and the map
FlushCallback(w, pc, S) ==
    LET S0 == [S EXCEPT !.win[w].flushed = TRUE,
                        !.win[w].hadCallback = S.cc # "undefined",
                        !.win[w].keys = {pc[i].path : i \in 1 .. Len(pc)},
                        !.win[w].needs = {pc[i].path : i \in {j \in 1 .. Len(pc) : pc[j].needsStats}}]
    IN IF S.cc # "undefined" THEN FlushEntries(pc, w, S0) ELSE S0

\* the handler of "close" calling the offline callback whether or not one is set
closeHandler_always(callback, n) == n + 1

\* the handler of "close": n counts the invocations of the offline callback
closeHandler(callback, n) == IF callback # "undefined" THEN n + 1 ELSE n

(***************************************************************************)
(* The connection-based facade (NodeFileSystem.js)                         *)
(***************************************************************************)
\* execConnected of _execWhenConnected: the command is called on the domain
execConnected(fn, S) ==
    RunThunk(fn, [S EXCEPT !.ops[fn.op].sentAt =
                              1 + Cardinality({o \in DOMAIN S.ops : S.ops[o].sentAt > 0})])

\* the errback of a facade operation: callback(_mapNodeError(err))
errback(fn, err, S) == StatSettled(fn.op, Rejected(err), S)

\* _execWhenConnected: the call is made at once when the command set is loaded
\* and else attached to _nodeConnectionPromise; the scheduler is not involved
_execWhenConnected(fn, loaded, promise, waiting, S) ==
    IF loaded
    THEN [S |-> execConnected(fn, S), deferred |-> waiting]
    ELSE CASE promise.state = "pending" -> [S |-> [S EXCEPT !.ops[fn.op].waited = TRUE],
                                            deferred |-> Append(waiting, fn)]
           [] promise.state = "resolved" -> [S |-> execConnected(fn, S), deferred |-> waiting]
           [] promise.state = "rejected" -> [S |-> errback(fn, promise.err, S),
                                             deferred |-> waiting]

\* the done handlers attached to _nodeConnectionPromise run last first
RECURSIVE RunDeferred_reversed(_, _)
RunDeferred_reversed(waiting, S) ==
    IF waiting = <<>> THEN S
    ELSE RunDeferred_reversed(SubSeq(waiting, 1, Len(waiting) - 1),
                              execConnected(waiting[Len(waiting)], S))

\* the fail handlers attached to _nodeConnectionPromise run in order
RECURSIVE FailDeferred(_, _, _)
FailDeferred(waiting, err, S) ==
    IF waiting = <<>> THEN S
    ELSE FailDeferred(Tail(waiting), err, errback(Head(waiting), err, S))

\* the done handlers attached to _nodeConnectionPromise run in order
RECURSIVE RunDeferred(_, _)
RunDeferred(waiting, S) ==
    IF waiting = <<>> THEN S
    ELSE RunDeferred(Tail(waiting), execConnected(Head(waiting), S))

(***************************************************************************)
(* Actions of the facade, the worker and the file system                   *)
(***************************************************************************)
ReplaceCall(c, d, S) == [S EXCEPT !.calls = (@ \ {c}) \cup {d}]

\* stat(path, callback) called by the application
CallStat ==
    /\ Len(ops) < MaxStats
    /\ \E path \in Paths :
          SetSched(stat(Len(ops) + 1,
                        [Sched EXCEPT !.ops = Append(@, NewOp("stat", path, <<>>, NoHash))]))
    /\ UNCHANGED <<MAX_CONNECTIONS, fsVars, watchVars, chanVars, pureVars, offlineVars, workerVars>>

\* writeFile(path, data, options, callback) called by the application
CallWriteFile ==
    /\ Len(ops) < MaxWrites
    /\ \E path \in WritePaths, data \in FileContents,
          hash \in {NoHash} \cup {Hash(v) : v \in 0 .. MaxClock} :
          SetSched(stat(Len(ops) + 1,
                        [Sched EXCEPT !.ops = Append(@, NewOp("writeFile", path, data, hash))]))
    /\ UNCHANGED <<MAX_CONNECTIONS, fsVars, watchVars, chanVars, pureVars, offlineVars, workerVars>>

\* statCmd: the worker answers a stat call
WorkerStat ==
    /\ \E c \in calls :
          /\ registeredCommand(c.cmd) = "statCmd" /\ c.wst = "sent"
          /\ \E out \in LstatOutcomes(fs, ops[c.op].path) :
                SetSched(ReplaceCall(c, [c EXCEPT !.wst = "replied",
                                                  !.res = _statHelper(fs, ops[c.op].path, out)],
                                     Sched))
    /\ UNCHANGED <<MAX_CONNECTIONS, fsVars, watchVars, chanVars, pureVars, offlineVars, workerVars>>

\* writeFileCmd, first step: existsCmd
WorkerWriteExists ==
    /\ \E c \in calls :
          /\ c.cmd = "writeFile" /\ c.wst = "sent"
          /\ SetSched(ReplaceCall(c, [c EXCEPT !.wst = "checked",
                                               !.exists = fs[ops[c.op].path].kind # "none"],
                                  Sched))
    /\ UNCHANGED <<MAX_CONNECTIONS, fsVars, watchVars, chanVars, pureVars, offlineVars, workerVars>>

\* what fs.writeFile can answer for a path
WriteOutcomes(F, path) ==
    IF F[path].kind = "dir" THEN {"EISDIR"} ELSE {"ok"} \cup OsErrors

\* writeFileCmd, second step: fs.writeFileAsync
WorkerWriteFile ==
    \E c \in calls :
       /\ c.cmd = "writeFile" /\ c.wst = "checked"
       /\ \E out \in WriteOutcomes(fs, ops[c.op].path) :
             IF out = "ok"
             THEN /\ fs' = [fs EXCEPT ![ops[c.op].path] = File(ops[c.op].data, clock)]
                  /\ SetSched(ReplaceCall(c, [c EXCEPT !.wst = "written"], Sched))
             ELSE /\ fs' = fs
                  /\ SetSched(ReplaceCall(c, [c EXCEPT !.wst = "replied",
                                                       !.res = Rejected(OsErr(out))], Sched))
       /\ UNCHANGED <<MAX_CONNECTIONS, clock, watchVars, chanVars, pureVars, offlineVars, workerVars>>

\* writeFileCmd, last steps: _statHelper, then stats.created = !exists
WorkerWriteStat ==
    /\ \E c \in calls :
          /\ c.cmd = "writeFile" /\ c.wst = "written"
          /\ \E out \in LstatOutcomes(fs, ops[c.op].path) :
                LET r == _statHelper(fs, ops[c.op].path, out)
                IN SetSched(ReplaceCall(c, [c EXCEPT !.wst = "replied",
                                                     !.res = IF r.ok
                                                             THEN [r EXCEPT !.created = ~c.exists]
                                                             ELSE r],
                                        Sched))
    /\ UNCHANGED <<MAX_CONNECTIONS, fsVars, watchVars, chanVars, pureVars, offlineVars, workerVars>>

\* path lists of length 0 .. MaxPaths
PathLists == UNION {[1 .. n -> Paths] : n \in 0 .. MaxPaths}

\* readAllFiles(paths, options, callback) called by the application
CallReadAllFiles ==
    /\ ops = <<>>
    /\ \E paths \in PathLists :
          SetSched(readAllFiles(Len(ops) + 1,
                     [Sched EXCEPT !.ops = Append(@, [NewOp("readAllFiles", "", <<>>, NoHash)
                                                        EXCEPT !.paths = paths])]))
    /\ UNCHANGED <<MAX_CONNECTIONS, fsVars, watchVars, chanVars, pureVars, offlineVars, workerVars>>

\* readFile(path, {encoding: "utf8"}, callback) called by the application
CallReadFile ==
    /\ Len(ops) < MaxOps
    /\ \E path \in Paths :
          SetSched(readFile(Len(ops) + 1,
                     [Sched EXCEPT !.ops = Append(@, [NewOp("readFile", path, <<>>, NoHash)
                                                        EXCEPT !.paths = <<path>>])]))
    /\ UNCHANGED <<MAX_CONNECTIONS, fsVars, watchVars, chanVars, pureVars, offlineVars, workerVars>>

\* the values a caller gives for options.encoding: none, null, a text encoding
CallerEncodings == {"undefined", "null", "utf8", "ascii"}

\* readFile(path, {encoding: e}, callback) called by the application
CallReadFileEncoding ==
    /\ Len(ops) < MaxOps
    /\ \E path \in Paths, e \in CallerEncodings :
          SetSched(readFile(Len(ops) + 1,
                     [Sched EXCEPT !.ops = Append(@, [NewOp("readFile", path, <<>>, NoHash)
                                                        EXCEPT !.paths = <<path>>,
                                                               !.optEncoding = e])]))
    /\ UNCHANGED <<MAX_CONNECTIONS, fsVars, watchVars, chanVars, pureVars, offlineVars, workerVars>>

\* readAllFiles(paths, {encoding: e}, callback) called by the application
CallReadAllFilesEncoding ==
    /\ Len(ops) < MaxOps
    /\ \E path \in Paths, e \in CallerEncodings :
          SetSched(readAllFiles(Len(ops) + 1,
                     [Sched EXCEPT !.ops = Append(@, [NewOp("readAllFiles", "", <<>>, NoHash)
                                                        EXCEPT !.paths = <<path>>,
                                                               !.optEncoding = e])]))
    /\ UNCHANGED <<MAX_CONNECTIONS, fsVars, watchVars, chanVars, pureVars, offlineVars, workerVars>>

\* writeFile(path, data, {encoding: e}, callback) called by the application
CallWriteFileEncoding ==
    /\ Len(ops) < MaxOps
    /\ \E path \in WritePaths, data \in FileContents, e \in CallerEncodings :
          SetSched(stat(Len(ops) + 1,
                        [Sched EXCEPT !.ops = Append(@, [NewOp("writeFile", path, data, NoHash)
                                                           EXCEPT !.optEncoding = e])]))
    /\ UNCHANGED <<MAX_CONNECTIONS, fsVars, watchVars, chanVars, pureVars, offlineVars, workerVars>>

\* a client of the worker's domain executes "readAllFiles" with encoding null
ExecReadAllFilesBinary ==
    /\ ops = <<>>
    /\ \E paths \in PathLists :
          LET o == Len(ops) + 1
              S == [Sched EXCEPT !.ops = Append(@, [NewOp("readAllFiles", "", <<>>, NoHash)
                                                      EXCEPT !.paths = paths,
                                                             !.encoding = "null"])]
          IN SetSched(RunThunk(Thunk(S.ns + 1, "readAllFiles", o, "promise"),
                               [S EXCEPT !.ns = @ + 1]))
    /\ UNCHANGED <<MAX_CONNECTIONS, fsVars, watchVars, chanVars, pureVars, offlineVars, workerVars>>

\* _readFileHelper of the i-th path: fs.readFileAsync settles
WorkerRead ==
    /\ \E c \in calls :
          /\ c.cmd \in {"readAllFiles", "readFile"} /\ c.wst = "sent"
          /\ \E i \in 1 .. Len(c.parts) :
                /\ c.parts[i].rd = "pending"
                /\ \E out \in ReadOutcomes(fs, ops[c.op].paths[i]) :
                      LET part == c.parts[i]
                          new == IF out = "ok"
                                 THEN [part EXCEPT !.rd = "ok",
                                                   !.data = fs[ops[c.op].paths[i]].data]
                                 ELSE [part EXCEPT !.rd = "fail",
                                                   !.rejected = TRUE,
                                                   !.err = IF part.rejected THEN @ ELSE OsErr(out)]
                      IN SetSched(ReplaceCall(c, [c EXCEPT !.parts[i] = new], Sched))
    /\ UNCHANGED <<MAX_CONNECTIONS, fsVars, watchVars, chanVars, pureVars, offlineVars, workerVars>>

\* _readFileHelper of the i-th path: _statHelper settles
WorkerReadStat ==
    /\ \E c \in calls :
          /\ c.cmd \in {"readAllFiles", "readFile"} /\ c.wst = "sent"
          /\ \E i \in 1 .. Len(c.parts) :
                /\ c.parts[i].sd = "pending"
                /\ \E out \in LstatOutcomes(fs, ops[c.op].paths[i]) :
                      LET part == c.parts[i]
                          r == _statHelper(fs, ops[c.op].paths[i], out)
                          new == IF r.ok
                                 THEN [part EXCEPT !.sd = "ok", !.stats = r.stats]
                                 ELSE [part EXCEPT !.sd = "fail",
                                                   !.rejected = TRUE,
                                                   !.err = IF part.rejected THEN @ ELSE r.err]
                      IN SetSched(ReplaceCall(c, [c EXCEPT !.parts[i] = new], Sched))
    /\ UNCHANGED <<MAX_CONNECTIONS, fsVars, watchVars, chanVars, pureVars, offlineVars, workerVars>>

\* readAllFilesCmd: every path has settled, the response is sent
WorkerReadReply ==
    /\ \E c \in calls :
          /\ c.cmd = "readAllFiles" /\ c.wst = "sent"
          /\ \A i \in 1 .. Len(c.parts) : PartSettled(c.parts[i])
          /\ SetSched(ReplaceCall(c, [c EXCEPT !.wst = "replied",
                                               !.res = IF ops[c.op].encoding = "null"
                                                       THEN readAllFilesBuffer(c.parts)
                                                       ELSE readAllFilesCmd(c.parts)],
                                  [Sched EXCEPT !.ops[c.op].obs = c.parts]))
    /\ UNCHANGED <<MAX_CONNECTIONS, fsVars, watchVars, chanVars, pureVars, offlineVars, workerVars>>

\* readFileCmd: both promises of _readFileHelper have settled
WorkerReadFileReply ==
    /\ \E c \in calls :
          /\ c.cmd = "readFile" /\ c.wst = "sent"
          /\ PartSettled(c.parts[1])
          /\ SetSched(ReplaceCall(c, [c EXCEPT !.wst = "replied",
                                               !.res = readFileCmd(c.parts[1])],
                                  [Sched EXCEPT !.ops[c.op].obs = c.parts]))
    /\ UNCHANGED <<MAX_CONNECTIONS, fsVars, watchVars, chanVars, pureVars, offlineVars, workerVars>>

\* another process replaces, removes or creates an entry read by readAllFiles
ReadEntries(path) == {NoFile} \cup {File(d, 0) : d \in ContentsOf(path)}

EnvReplace ==
    /\ \E path \in Paths : \E e \in ReadEntries(path) :
          /\ fs[path] # e
          /\ fs' = [fs EXCEPT ![path] = e]
    /\ UNCHANGED <<MAX_CONNECTIONS, schedVars, clock, watchVars, chanVars, pureVars, offlineVars, workerVars>>

\* initWatchers(changeCallback, offlineCallback) called by the application
InitWatchers ==
    /\ _changeCallback = "undefined"
    /\ _changeCallback' = "changeCallback"
    /\ _offlineCallback' = "offlineCallback"
    /\ UNCHANGED <<MAX_CONNECTIONS, schedVars, fsVars, _changeTimeout, _pendingChanges,
                   batchTimers, notified, chanVars, pureVars, offlineVars, workerVars>>

\* a "change" event of the worker's domain reaches _fileWatcherChange
Notify ==
    /\ notified < MaxNotifications
    /\ _changeTimeout # 0 \/ Len(windows) < MaxWindows
    /\ \E path \in RawPaths, event \in RawEvents, filename \in RawNames :
          LET W == _fileWatcherChange(path, event, filename, Coalescer)
          IN /\ _pendingChanges' = W.pc
             /\ _changeTimeout' = W.ct
             /\ batchTimers' = W.bt
             /\ windows' = W.win
    /\ notified' = notified + 1
    /\ UNCHANGED <<MAX_CONNECTIONS, _waitingRequests, _pendingRequests, _pendingRequestCount,
                   _requestCounter, startTimers, dequeueTimers, calls, submitted, admitted,
                   ops, fsVars, _changeCallback, _offlineCallback, chanVars, pureVars, offlineVars, workerVars>>

\* the flush without its last statement, _pendingChanges = {}
Flush_keepsMap ==
    /\ \E w \in batchTimers :
          /\ SetSched(FlushCallback(w, _pendingChanges, Sched))
          /\ batchTimers' = batchTimers \ {w}
    /\ _changeTimeout' = 0
    /\ _pendingChanges' = _pendingChanges
    /\ UNCHANGED <<MAX_CONNECTIONS, fsVars, _changeCallback, _offlineCallback, notified,
                   chanVars, pureVars, offlineVars, workerVars>>

\* a batch timer fires after FILE_WATCHER_BATCH_TIMEOUT
Flush ==
    /\ \E w \in batchTimers :
          /\ SetSched(FlushCallback(w, _pendingChanges, Sched))
          /\ batchTimers' = batchTimers \ {w}
    /\ _changeTimeout' = 0
    /\ _pendingChanges' = <<>>
    /\ UNCHANGED <<MAX_CONNECTIONS, fsVars, _changeCallback, _offlineCallback, notified,
                   chanVars, pureVars, offlineVars, workerVars>>

\* exists, unlink, watchPath, unwatchPath and unwatchAll called by the application
CallExists ==
    /\ Len(ops) < MaxOps
    /\ \E path \in ExistsPaths :
          SetSched(exists(Len(ops) + 1,
                          [Sched EXCEPT !.ops = Append(@, NewOp("exists", path, <<>>, NoHash))]))
    /\ UNCHANGED <<MAX_CONNECTIONS, fsVars, watchVars, chanVars, pureVars, offlineVars, workerVars>>

CallUnlink ==
    /\ Len(ops) < MaxOps
    /\ \E path \in UnlinkPaths :
          SetSched(unlink(Len(ops) + 1,
                          [Sched EXCEPT !.ops = Append(@, NewOp("unlink", path, <<>>, NoHash))]))
    /\ UNCHANGED <<MAX_CONNECTIONS, fsVars, watchVars, chanVars, pureVars, offlineVars, workerVars>>

CallWatchPath ==
    /\ Len(ops) < MaxOps
    /\ \E path \in WatchPaths :
          SetSched(watchPath(Len(ops) + 1,
                             [Sched EXCEPT !.ops = Append(@, NewOp("watchPath", path, <<>>, NoHash))]))
    /\ UNCHANGED <<MAX_CONNECTIONS, fsVars, watchVars, chanVars, pureVars, offlineVars, workerVars>>

CallUnwatchPath ==
    /\ Len(ops) < MaxOps
    /\ \E path \in WatchPaths :
          SetSched(unwatchPath(Len(ops) + 1,
                               [Sched EXCEPT !.ops = Append(@, NewOp("unwatchPath", path, <<>>, NoHash))]))
    /\ UNCHANGED <<MAX_CONNECTIONS, fsVars, watchVars, chanVars, pureVars, offlineVars, workerVars>>

\* quiet records that every earlier watch operation had completed at the call
CallUnwatchAll ==
    /\ Len(ops) < MaxOps
    /\ SetSched(unwatchAll(Len(ops) + 1,
                           [Sched EXCEPT !.ops = Append(@, [NewOp("unwatchAll", "", <<>>, NoHash)
                                                              EXCEPT !.quiet = \A p \in 1 .. Len(ops) : ops[p].cb # <<>>])]))
    /\ UNCHANGED <<MAX_CONNECTIONS, fsVars, watchVars, chanVars, pureVars, offlineVars, workerVars>>

\* unlinkCmd: fs.removeAsync
WorkerUnlink ==
    /\ \E c \in calls :
          /\ registeredCommand(c.cmd) = "unlinkCmd" /\ c.wst = "sent"
          /\ \E out \in {"ok"} \cup OsErrors :
                IF out = "ok"
                THEN /\ fs' = [fs EXCEPT ![ops[c.op].path] = NoFile]
                     /\ SetSched(ReplaceCall(c, [c EXCEPT !.wst = "replied",
                                                          !.res = ResolvedValue("undefined")], Sched))
                ELSE /\ fs' = fs
                     /\ SetSched(ReplaceCall(c, [c EXCEPT !.wst = "replied",
                                                          !.res = Rejected(OsErr(out))], Sched))
    /\ UNCHANGED <<MAX_CONNECTIONS, clock, watchVars, chanVars, pureVars, offlineVars, workerVars>>

\* the worker runs watchPath or unwatchPath (synchronous commands)
WorkerWatch ==
    /\ \E c \in calls :
          /\ registeredCommand(c.cmd) \in {"watchPath", "unwatchPath"} /\ c.wst = "sent"
          /\ SetSched(ReplaceCall(c, [c EXCEPT !.wst = "replied",
                                               !.res = ResolvedValue("undefined")], Sched))
          /\ IF registeredCommand(c.cmd) = "watchPath"
             THEN \E out \in WatchOutcomes(fs, Argument(ops[c.op])) :
                     _watcherMap' = watchPathCmd(_watcherMap, Argument(ops[c.op]), out)
             ELSE _watcherMap' = unwatchPathCmd(_watcherMap, Argument(ops[c.op]))
    /\ UNCHANGED <<MAX_CONNECTIONS, fsVars, watchVars, _domainsLoaded, deferred,
                   _nodeConnectionPromise, pureVars, offlineVars, workerVars>>

\* the worker's watcher state
WorkerWatchers == [map |-> _watcherMap, ws |-> watchers]

SetWorkerWatchers(W) ==
    /\ _watcherMap' = W.map
    /\ watchers' = W.ws

\* the command watchPath arrives at the worker
WorkerWatchPath ==
    /\ Len(watchers) < MaxWatchers
    /\ \E path \in WorkerPaths :
          \E out \in WatchOutcomes(fs, path) :
             /\ SetWorkerWatchers(workerWatchPath(WorkerWatchers, path, out))
             /\ tracked' = IF path \in _watcherMap \/ out = "ok"
                           THEN tracked \cup {path} ELSE tracked
    /\ UNCHANGED <<MAX_CONNECTIONS, schedVars, fsVars, watchVars, _domainsLoaded, deferred,
                   _nodeConnectionPromise, pureVars, offlineVars>>

\* the command unwatchPath arrives at the worker
WorkerUnwatchPath ==
    /\ \E path \in WorkerPaths, stop \in {"ok", "throws"} :
          /\ SetWorkerWatchers(workerUnwatchPath(WorkerWatchers, path, stop))
          /\ tracked' = tracked \ {path}
    /\ UNCHANGED <<MAX_CONNECTIONS, schedVars, fsVars, watchVars, _domainsLoaded, deferred,
                   _nodeConnectionPromise, pureVars, offlineVars>>

\* the command unwatchAll arrives at the worker
WorkerUnwatchAll ==
    /\ \E stops \in [_watcherMap -> {"ok", "throws"}] :
          SetWorkerWatchers(workerUnwatchAll(WorkerWatchers, _watcherMap, stops))
    /\ tracked' = {}
    /\ UNCHANGED <<MAX_CONNECTIONS, schedVars, fsVars, watchVars, _domainsLoaded, deferred,
                   _nodeConnectionPromise, pureVars, offlineVars>>

\* a watcher emits "error": its handler calls unwatchPath for its path. A
\* watcher whose stop threw may still emit
WatcherError ==
    /\ \E i \in DOMAIN watchers, stop \in {"ok", "throws"} :
          /\ watchers[i].state \in {"open", "failed"}
          /\ SetWorkerWatchers(workerUnwatchPath(WorkerWatchers, watchers[i].path, stop))
          /\ tracked' = tracked \ {watchers[i].path}
    /\ UNCHANGED <<MAX_CONNECTIONS, schedVars, fsVars, watchVars, _domainsLoaded, deferred,
                   _nodeConnectionPromise, pureVars, offlineVars>>

\* the channel rejects a call that has not been answered
ChannelReject ==
    /\ \E c \in calls :
          /\ c.cmd # "task" /\ c.wst = "sent"
          /\ SetSched(ReplaceCall(c, [c EXCEPT !.wst = "replied", !.res = Rejected(RpcErr)], Sched))
    /\ UNCHANGED <<MAX_CONNECTIONS, fsVars, watchVars, chanVars, pureVars, offlineVars, workerVars>>

\* a watcher of the worker emits a change event, which reaches _fileWatcherChange
WatcherEvent ==
    /\ notified < MaxEvents
    /\ \E path \in _watcherMap \cap RawPaths, event \in RawEvents, filename \in RawNames :
          LET W == _fileWatcherChange(path, event, filename, Coalescer)
          IN /\ _pendingChanges' = W.pc
             /\ _changeTimeout' = W.ct
             /\ batchTimers' = W.bt
             /\ windows' = W.win
    /\ notified' = notified + 1
    /\ UNCHANGED <<MAX_CONNECTIONS, _waitingRequests, _pendingRequests, _pendingRequestCount,
                   _requestCounter, startTimers, dequeueTimers, calls, submitted, admitted,
                   ops, fsVars, _changeCallback, _offlineCallback, chanVars, pureVars, offlineVars, workerVars>>

\* stat(path, callback) of the connection-based facade
CallStatConnected ==
    /\ Len(ops) < MaxOps
    /\ \E path \in Paths :
          LET o == Len(ops) + 1
              S0 == [Sched EXCEPT !.ops = Append(@, NewOp("stat", path, <<>>, NoHash))]
              R == _execWhenConnected(Thunk(0, "stat", o, "promise"), _domainsLoaded,
                                      _nodeConnectionPromise, deferred, S0)
          IN /\ SetSched(R.S)
             /\ deferred' = R.deferred
    /\ UNCHANGED <<MAX_CONNECTIONS, fsVars, watchVars, _watcherMap, _domainsLoaded,
                   _nodeConnectionPromise, pureVars, offlineVars, workerVars>>

\* _nodeConnectionPromise resolves: connected and _loadDomains done
ConnectionReady ==
    /\ ~_domainsLoaded
    /\ _nodeConnectionPromise.state = "pending"
    /\ _domainsLoaded' = TRUE
    /\ _nodeConnectionPromise' = ResolvedPromise
    /\ SetSched(RunDeferred(deferred, Sched))
    /\ deferred' = <<>>
    /\ UNCHANGED <<MAX_CONNECTIONS, fsVars, watchVars, _watcherMap, pureVars, offlineVars, workerVars>>

\* _nodeConnectionPromise is rejected: the connection attempt or _loadDomains failed
ConnectionFail ==
    /\ ~_domainsLoaded
    /\ _nodeConnectionPromise.state = "pending"
    /\ \E err \in {NoRawErr, RpcErr} :
          /\ _nodeConnectionPromise' = RejectedPromise(err)
          /\ SetSched(FailDeferred(deferred, err, Sched))
    /\ deferred' = <<>>
    /\ UNCHANGED <<MAX_CONNECTIONS, fsVars, watchVars, _watcherMap, _domainsLoaded, pureVars,
                   offlineVars, workerVars>>

\* the "close" event of the connection (NodeFileSystem.js)
ConnectionClose ==
    /\ _domainsLoaded
    /\ closes < MaxCloses
    /\ _domainsLoaded' = FALSE
    /\ _nodeConnectionPromise' = PendingPromise
    /\ closes' = closes + 1
    /\ offlineCalls' = closeHandler(_offlineCallback, offlineCalls)
    /\ UNCHANGED <<MAX_CONNECTIONS, schedVars, fsVars, watchVars, _watcherMap, deferred, pureVars, workerVars>>

\* the "close" event of the connection of the worker's domain
Close ==
    /\ closes < MaxCloses
    /\ closes' = closes + 1
    /\ offlineCalls' = closeHandler(_offlineCallback, offlineCalls)
    /\ UNCHANGED <<MAX_CONNECTIONS, schedVars, fsVars, watchVars, chanVars, pureVars, workerVars>>

\* The promise of an RPC call settles on the UI side: the done / fail handlers
\* of the thunk run, then the always-handler of the scheduler if one is attached.
Settled(c, S) ==
    LET S0 == [S EXCEPT !.calls = @ \ {c}]
        S1 == CASE c.cmd = "stat" -> StatSettled(c.op, c.res, S0)
                [] c.cmd = "writeFile" -> WriteSettled(c.op, c.res, S0)
                [] c.cmd = "readAllFiles" -> ReadAllSettled(c.op, c.res, S0)
                [] c.cmd = "readFile" -> ReadFileSettled(c.op, c.res, S0)
                [] c.cmd = "exists" -> ExistsSettled(c.op, c.res, S0)
                [] c.cmd = "unlink" -> UnlinkSettled(c.op, c.res, S0)
                [] c.cmd \in {"watchPath", "unwatchPath"} -> WatchSettled(c.op, c.res, S0)
    IN AlwaysHandler(c.always, S1)

Settle ==
    /\ \E c \in calls :
          /\ c.cmd # "task" /\ c.wst = "replied"
          /\ SetSched(Settled(c, Sched))
    /\ UNCHANGED <<MAX_CONNECTIONS, fsVars, watchVars, chanVars, pureVars, offlineVars, workerVars>>

\* another process writes or removes a file, time passes
EnvWrite ==
    /\ \E path \in WritePaths, data \in OtherContents :
          /\ fs[path].kind # "dir"
          /\ fs[path] # File(data, clock)
          /\ fs' = [fs EXCEPT ![path] = File(data, clock)]
    /\ UNCHANGED <<MAX_CONNECTIONS, schedVars, clock, watchVars, chanVars, pureVars, offlineVars, workerVars>>

EnvUnlink ==
    /\ \E path \in WritePaths :
          /\ fs[path].kind # "none"
          /\ fs' = [fs EXCEPT ![path] = NoFile]
    /\ UNCHANGED <<MAX_CONNECTIONS, schedVars, clock, watchVars, chanVars, pureVars, offlineVars, workerVars>>

Tick ==
    /\ clock < MaxClock
    /\ clock' = clock + 1
    /\ UNCHANGED <<MAX_CONNECTIONS, schedVars, fs, watchVars, chanVars, pureVars, offlineVars, workerVars>>

InitState ==
    /\ _waitingRequests = <<>>
    /\ _pendingRequests = <<>>
    /\ _pendingRequestCount = 0
    /\ _requestCounter = 0
    /\ startTimers = {}
    /\ dequeueTimers = 0
    /\ calls = {}
    /\ submitted = 0
    /\ admitted = <<>>
    /\ ops = <<>>
    /\ windows = <<>>
    /\ _changeCallback = "undefined"
    /\ _offlineCallback = "undefined"
    /\ _changeTimeout = 0
    /\ _pendingChanges = <<>>
    /\ batchTimers = {}
    /\ notified = 0
    /\ _watcherMap = {}
    /\ _domainsLoaded = FALSE
    /\ deferred = <<>>
    /\ _nodeConnectionPromise = PendingPromise
    /\ closes = 0
    /\ offlineCalls = 0
    /\ watchers = <<>>
    /\ tracked = {}

\* the state after construction, no translator or encoder applied
InitSched ==
    /\ InitState
    /\ input = NoInput
    /\ output = NoOutput


\* Scheduler with tasks and stat operations, over a fixed file system
Init ==
    /\ InitSched
    /\ MAX_CONNECTIONS \in -1 .. MaxBound
    /\ fs = [p \in FsPaths |-> IF p = "/a" THEN File(<<65>>, 0) ELSE NoFile]
    /\ clock = 0

Next ==
    \/ Submit
    \/ TimerStart
    \/ TimerDequeue
    \/ TaskSettle
    \/ CallStat
    \/ WorkerStat
    \/ Settle

Spec == Init /\ [][Next]_vars

\* The same behaviours with every timer firing, the worker answering and every
\* call settling: each started request completes.
SpecLive ==
    /\ Init /\ [][Next]_vars
    /\ WF_vars(TimerStart) /\ WF_vars(TimerDequeue)
    /\ WF_vars(TaskSettle) /\ WF_vars(WorkerStat) /\ WF_vars(Settle)

\* writeFile operations racing with other writers of the file system
InitWrite ==
    /\ InitSched
    /\ MAX_CONNECTIONS \in {-1, 1}
    /\ \E e \in {NoFile, File(<<65>>, 0), Dir(0)} :
          fs = [p \in FsPaths |-> IF p \in WritePaths THEN e ELSE NoFile]
    /\ clock = 0

NextWrite ==
    \/ CallWriteFile
    \/ TimerStart
    \/ WorkerStat
    \/ WorkerWriteExists
    \/ WorkerWriteFile
    \/ WorkerWriteStat
    \/ Settle
    \/ EnvWrite
    \/ EnvUnlink
    \/ Tick

SpecWrite == InitWrite /\ [][NextWrite]_vars

\* one readAllFiles call, as the facade is configured (no bound), over files
\* that other processes replace meanwhile
InitRead ==
    /\ InitSched
    /\ MAX_CONNECTIONS = -1
    /\ fs = [p \in FsPaths |-> IF p = "/a" THEN File(<<65, 92>>, 0) ELSE NoFile]
    /\ clock = 0

NextRead ==
    \/ CallReadAllFiles
    \/ WorkerRead
    \/ WorkerReadStat
    \/ WorkerReadReply
    \/ Settle
    \/ EnvReplace

SpecRead == InitRead /\ [][NextRead]_vars

\* readAllFiles with encoding null executed on the worker, racing with other
\* processes that replace the files
NextReadBinary ==
    \/ ExecReadAllFilesBinary
    \/ WorkerRead
    \/ WorkerReadStat
    \/ WorkerReadReply
    \/ EnvReplace

SpecReadBinary == InitRead /\ [][NextReadBinary]_vars

\* readFile in text mode over a text file and a file with a NUL byte
InitReadFile ==
    /\ InitSched
    /\ MAX_CONNECTIONS = -1
    /\ fs = [p \in FsPaths |-> CASE p = "/a" -> File(<<65, 92>>, 0)
                                 [] p = "/b" -> File(<<0, 66>>, 0)
                                 [] OTHER -> NoFile]
    /\ clock = 0

NextReadFile ==
    \/ CallReadFile
    \/ WorkerRead
    \/ WorkerReadStat
    \/ WorkerReadFileReply
    \/ Settle

SpecReadFile == InitReadFile /\ [][NextReadFile]_vars

\* the encoding the facade hands to the worker for readFile, readAllFiles and
\* writeFile, up to the sending of the command
NextEncoding ==
    \/ CallReadFileEncoding
    \/ CallReadAllFilesEncoding
    \/ CallWriteFileEncoding
    \/ WorkerStat
    \/ Settle

SpecEncoding == InitReadFile /\ [][NextEncoding]_vars

\* the change coalescer with the stat calls of its flushes
InitWatch ==
    /\ InitSched
    /\ MAX_CONNECTIONS \in {-1, 1}
    /\ fs = [p \in FsPaths |-> CASE p = "/d" -> Dir(0)
                                 [] p = "/d/f" -> File(<<65>>, 0)
                                 [] OTHER -> NoFile]
    /\ clock = 0

NextWatch ==
    \/ InitWatchers
    \/ Notify
    \/ Flush
    \/ TimerStart
    \/ WorkerStat
    \/ Settle

SpecWatch == InitWatch /\ [][NextWatch]_vars

\* The coalescer with the "close" events of the connection: notifications,
\* flushes and the registration of the callbacks interleaved with closes.
NextOffline ==
    \/ InitWatchers
    \/ Notify
    \/ Flush
    \/ Close

SpecOffline == InitWatch /\ [][NextOffline]_vars

\* exists, unlink and the watch operations over the scheduler, the worker's
\* watcher map and a channel that may reject a call
InitFacade ==
    /\ InitSched
    /\ MAX_CONNECTIONS \in {-1, 0}
    /\ fs = [p \in FsPaths |-> CASE p = "/d" -> Dir(0)
                                 [] p = "/d/f" -> File(<<65>>, 0)
                                 [] OTHER -> NoFile]
    /\ clock = 0

NextFacade ==
    \/ CallExists
    \/ CallUnlink
    \/ CallWatchPath
    \/ CallUnwatchPath
    \/ CallUnwatchAll
    \/ TimerStart
    \/ WorkerStat
    \/ WorkerUnlink
    \/ WorkerWatch
    \/ ChannelReject
    \/ WatcherEvent
    \/ Settle

SpecFacade == InitFacade /\ [][NextFacade]_vars

\* stat operations of the connection-based facade
InitConnection ==
    /\ InitSched
    /\ MAX_CONNECTIONS = 6
    /\ fs = [p \in FsPaths |-> IF p = "/a" THEN File(<<65>>, 0) ELSE NoFile]
    /\ clock = 0

NextConnection ==
    \/ CallStatConnected
    \/ ConnectionReady
    \/ ConnectionFail
    \/ ConnectionClose
    \/ WorkerStat
    \/ ChannelReject
    \/ Settle

SpecConnection == InitConnection /\ [][NextConnection]_vars

\* the worker's watchers under any sequence of commands and watcher errors
InitWorker ==
    /\ InitSched
    /\ MAX_CONNECTIONS = 1
    /\ fs = [p \in FsPaths |-> CASE p = "/d" -> Dir(0)
                                 [] p = "/a" -> File(<<65>>, 0)
                                 [] OTHER -> NoFile]
    /\ clock = 0

NextWorker ==
    \/ WorkerWatchPath
    \/ WorkerUnwatchPath
    \/ WorkerUnwatchAll
    \/ WatcherError

SpecWorker == InitWorker /\ [][NextWorker]_vars

\* the errors the worker's promises can be rejected with, and an absent error
WorkerErrors == {NoRawErr, StringErr("Binary file"), RpcErr, [text |-> "", cause |-> "nocode"]}
                   \cup {OsErr(c) : c \in CauseCodes}

\* the arguments the translators are applied to
TranslatorInputs ==
    {[NoInput EXCEPT !.fn = "_wrap", !.code = c, !.payload = v] :
         c \in DialogErrors, v \in DialogPayloads}
       \cup {[NoInput EXCEPT !.fn = "_mapNodeError", !.err = e] : e \in WorkerErrors}

\* a callback made by _wrap is called with an error of the dialog vocabulary
ApplyWrap ==
    /\ input.fn = "_wrap"
    /\ ~output.done
    /\ output' = [NoOutput EXCEPT !.done = TRUE, !.args = _wrap(<<input.code, input.payload>>)]
    /\ UNCHANGED <<MAX_CONNECTIONS, schedVars, fsVars, watchVars, chanVars, input, offlineVars, workerVars>>

\* _mapNodeError is called with what a promise of the worker was rejected with
ApplyMapNodeError ==
    /\ input.fn = "_mapNodeError"
    /\ ~output.done
    /\ output' = [NoOutput EXCEPT !.done = TRUE, !.kind = _mapNodeError(input.err),
                                  !.logged = _mapNodeErrorLogs(input.err)]
    /\ UNCHANGED <<MAX_CONNECTIONS, schedVars, fsVars, watchVars, chanVars, input, offlineVars, workerVars>>

\* the error translators of the facade, each applied once to one argument
InitTranslate ==
    /\ InitState
    /\ MAX_CONNECTIONS = -1
    /\ fs = [p \in FsPaths |-> NoFile]
    /\ clock = 0
    /\ input \in TranslatorInputs
    /\ output = NoOutput

NextTranslate ==
    \/ ApplyWrap
    \/ ApplyMapNodeError

SpecTranslate == InitTranslate /\ [][NextTranslate]_vars

\* the stat results and resolved paths the binary encoder is applied to
EncoderInputs ==
    {[NoInput EXCEPT !.fn = "_getStatsBuffer",
                     !.stats = [NoStatObj EXCEPT !.isFile = f, !.mtime = m, !.size = z],
                     !.realpath = r] :
         f \in BOOLEAN, m \in Mtimes, z \in Sizes, r \in Realpaths}
       \cup {[NoInput EXCEPT !.fn = "_getStatsBuffer",
                             !.stats = [NoStatObj EXCEPT !.isFile = f, !.mtime = 0, !.size = 0],
                             !.realpath = r] :
                f \in BOOLEAN, r \in LongRealpaths}

\* _formatStats(null, stats, realpath): the binary encoding of a stat record
ApplyGetStatsBuffer ==
    /\ input.fn = "_getStatsBuffer"
    /\ ~output.done
    /\ \E strict \in BOOLEAN :
          LET r == _getStatsBuffer(input.stats, input.realpath, strict)
          IN output' = [NoOutput EXCEPT !.done = TRUE, !.threw = r.threw, !.bytes = r.bytes]
    /\ UNCHANGED <<MAX_CONNECTIONS, schedVars, fsVars, watchVars, chanVars, input, offlineVars, workerVars>>

\* what fs.realpath can answer: an absolute path without a trailing separator,
\* or the root
ResolvedPaths ==
    {r \in Realpaths :
        /\ Len(r) > 0
        /\ r[1] = 47
        /\ (Len(r) > 1 => r[Len(r)] # 47)
        /\ \A i \in 1 .. Len(r) - 1 : ~(r[i] = 47 /\ r[i + 1] = 47)}

\* the entries _statHelper is applied to: a file or directory, or a symbolic
\* link with the entry and the resolved path of its target
StatHelperInputs ==
    {[NoInput EXCEPT !.fn = "_statHelper", !.isLink = l, !.entry = e, !.encoding = enc,
                     !.realpath = r] :
         l \in {FALSE}, e \in {File(<<65>>, 0), Dir(0), Dir(1)}, enc \in {"utf8", "null"},
         r \in {<<>>}}
       \cup {[NoInput EXCEPT !.fn = "_statHelper", !.isLink = l, !.entry = e, !.encoding = enc,
                             !.realpath = r] :
                l \in {TRUE}, e \in {File(<<65>>, 0), Dir(0), Dir(1)}, enc \in {"utf8", "null"},
                r \in ResolvedPaths}

\* lstat has succeeded in _statHelper: the stat record is formatted
ApplyStatHelper ==
    /\ input.fn = "_statHelper"
    /\ ~output.done
    /\ \E strict \in BOOLEAN :
          output' = _statHelperThen(input.isLink, input.entry, input.realpath,
                                    input.encoding, strict)
    /\ UNCHANGED <<MAX_CONNECTIONS, schedVars, fsVars, watchVars, chanVars, input, offlineVars, workerVars>>

\* the binary stat encoder applied once to one stat record, and the stat helper
\* applied once to one entry
InitStatCodec ==
    /\ InitState
    /\ MAX_CONNECTIONS = -1
    /\ fs = [p \in FsPaths |-> NoFile]
    /\ clock = 0
    /\ input \in EncoderInputs \cup StatHelperInputs
    /\ output = NoOutput

NextStatCodec ==
    \/ ApplyGetStatsBuffer
    \/ ApplyStatHelper

SpecStatCodec == InitStatCodec /\ [][NextStatCodec]_vars

(***************************************************************************)
(* Properties of the request scheduler (specification Spec)                *)
(***************************************************************************)
\* C1: with a bound N >= 0 configured, the number of in-flight requests
\* (admitted and not yet completed) never exceeds N.
C1_InFlightWithinBound ==
    MAX_CONNECTIONS >= 0 => _pendingRequestCount <= MAX_CONNECTIONS

\* C2: with a finite bound, requests are admitted in exactly the order of their
\* submission: the k-th admission is the k-th submitted request, and every
\* request still waiting was submitted after every admitted one.
C2_AdmissionInSubmissionOrder ==
    MAX_CONNECTIONS >= 0 =>
        /\ \A i \in 1 .. Len(admitted) : admitted[i] = i
        /\ \A k \in 1 .. Len(_waitingRequests) :
              _waitingRequests[k].seq = Len(admitted) + k

\* Two requests have been admitted in turn while two more are still waiting.
C2_Witness ==
    /\ MAX_CONNECTIONS >= 0
    /\ Len(admitted) >= 2
    /\ Len(_waitingRequests) >= 2

\* C3: with a finite bound, the step in which the RPC call of an admitted
\* request settles decrements the in-flight count by exactly one and arms one
\* dequeue attempt, also for the requests of the facade operations.
C3_CompletionReleasesSlot ==
    [][ MAX_CONNECTIONS >= 0 =>
          \A c \in calls :
             (\A d \in calls' : d.seq # c.seq) =>
                 /\ _pendingRequestCount' = _pendingRequestCount - 1
                 /\ dequeueTimers' = dequeueTimers + 1 ]_vars

\* C4: with the unbounded sentinel, the submit step itself issues the call of the
\* submitted thunk and leaves the waiting list and the in-flight count unchanged.
C4_UnboundedRunsImmediately ==
    [][ (MAX_CONNECTIONS < 0 /\ submitted' # submitted) =>
          /\ \E c \in calls' \ calls : c.seq = submitted'
          /\ _waitingRequests' = _waitingRequests
          /\ _pendingRequestCount' = _pendingRequestCount
          /\ _waitingRequests = <<>>
          /\ _pendingRequestCount = 0 ]_vars

\* A thunk was submitted under the sentinel and its call is in flight.
C4_Witness ==
    /\ MAX_CONNECTIONS < 0
    /\ submitted >= 2
    /\ \E c \in calls : c.seq = submitted

(***************************************************************************)
(* Properties of writeFile (specification SpecWrite)                       *)
(***************************************************************************)
WriteOps == {o \in 1 .. Len(ops) : ops[o].kind = "writeFile"}

\* no writeFile call was or will be sent to the worker for operation o
NoWriteIssued(o) ==
    /\ ops[o].writeCalls = 0
    /\ \A c \in calls : ~(c.op = o /\ c.cmd = "writeFile")
    /\ \A k \in 1 .. Len(_waitingRequests) :
          ~(_waitingRequests[k].op = o /\ _waitingRequests[k].cmd = "writeFile")
    /\ \A id \in DOMAIN _pendingRequests :
          ~(_pendingRequests[id].op = o /\ _pendingRequests[id].cmd = "writeFile")

StaleToken(o) ==
    /\ ops[o].seenErr = NoError
    /\ ops[o].hash.has
    /\ ops[o].hash.val # ops[o].seenHash

\* C5: a writeFile whose token differs from the hash its initial stat observed
\* on an existing file has completed with ContentsModified (once), and no
\* writeFile call is sent to the worker for it, so it changes no content.
C5_StaleTokenRejected ==
    \A o \in WriteOps :
        StaleToken(o) =>
            /\ ops[o].cb = <<CallbackArgs(CONTENTS_MODIFIED, NoStats, "undefined")>>
            /\ NoWriteIssued(o)

C5_Witness == \E o \in WriteOps : StaleToken(o) /\ fs[ops[o].path].kind = "file"

\* C6: a successful writeFile reports created = true exactly when its initial
\* stat found the path missing.
C6_CreatedIffStatNotFound ==
    \A o \in WriteOps :
        \A i \in 1 .. Len(ops[o].cb) :
            ops[o].cb[i].err = NoError =>
                (ops[o].cb[i].created = "true" <=> ops[o].seenErr = NOT_FOUND)

\* C7: if the initial stat of writeFile fails with an ErrorKind other than
\* NotFound, writeFile has completed with exactly that ErrorKind and no
\* writeFile call is sent to the worker.
StatFailedOther(o) == ops[o].seenErr \notin {"unset", NoError, NOT_FOUND}

C7_OtherStatFailureSurfaces ==
    \A o \in WriteOps :
        StatFailedOther(o) =>
            /\ ops[o].seenErr \in ErrorKinds
            /\ ops[o].cb = <<CallbackArgs(ops[o].seenErr, NoStats, "undefined")>>
            /\ NoWriteIssued(o)

C7_Witness ==
    /\ \E o \in WriteOps : ops[o].seenErr = NOT_READABLE
    /\ \E o \in WriteOps : ops[o].seenErr \in {NOT_READABLE, UNKNOWN} /\ Len(ops[o].cb) = 1

(***************************************************************************)
(* Properties of readAllFiles (specification SpecRead)                     *)
(***************************************************************************)
ReadOps == {o \in 1 .. Len(ops) : ops[o].kind = "readAllFiles"}

\* the ErrorKind of the failure of one path
KindOfFailure(err) ==
    IF err.cause = "ENOENT" THEN NOT_FOUND
    ELSE IF err.cause = "EPERM" THEN NOT_READABLE
    ELSE UNKNOWN

HasNul(data) == \E i \in 1 .. Len(data) : data[i] = 0

\* C8: a completed readAllFiles(paths) has issued one RPC call and called back
\* once, without error, with a list as long as paths; position i holds the
\* ErrorKind of the failure of paths[i] if reading or stating paths[i] failed
\* (Unknown for binary content), and else the content read from paths[i] with the
\* stat record obtained for paths[i].
C8_BatchReadPerPath ==
    \A o \in ReadOps :
        ops[o].cb # <<>> =>
            LET args == ops[o].cb[1]
                paths == ops[o].paths
                obs == ops[o].obs
            IN /\ Len(ops[o].cb) = 1
               /\ ops[o].rpcCalls = 1
               /\ args.err = NoError
               /\ args.hasResults
               /\ Len(args.results) = Len(paths)
               /\ \A i \in 1 .. Len(paths) :
                     LET r == args.results[i]
                         part == obs[i]
                     IN IF part.rejected
                        THEN r = Result(KindOfFailure(part.err), <<>>, NoStats)
                        ELSE IF HasNul(part.data) /\ part.stats.size > 0
                        THEN r.err \in ErrorKinds
                        ELSE /\ r.err = NoError
                             /\ part.data \in ContentsOf(paths[i])
                             /\ r.data = Utf8Decode(part.data)
                             /\ r.stats.isFile
                             /\ r.stats.size = part.stats.size
                             /\ r.stats.mtime = part.stats.mtime

\* readAllFiles of an existing and a missing path has completed with
\* [success, NotFound]; another one with a failure first and a success second.
C8_Witness ==
    \E o \in ReadOps :
        /\ ops[o].cb # <<>>
        /\ Len(ops[o].paths) = 2
        /\ ops[o].cb[1].results[1].err = NoError
        /\ ops[o].cb[1].results[1].data = <<233, 34>>
        /\ ops[o].cb[1].results[2].err = NOT_FOUND

(***************************************************************************)
(* Properties of the change coalescer (specification SpecWatch)            *)
(***************************************************************************)
RECURSIVE SumOver(_, _)
SumOver(f, K) ==
    IF K = {} THEN 0
    ELSE LET k == CHOOSE x \in K : TRUE IN f[k] + SumOver(f, K \ {k})

\* the paths registered in window w, and the number of registrations
Registered(w) == {k \in ChangeKeys : windows[w].regs[k] > 0}
Registrations(w) == SumOver(windows[w].regs, ChangeKeys)

\* invocations of the change callback that the flush of window w produced
InvocationsFor(w, k) == windows[w].plain[k] + windows[w].withStats[k]
Invocations(w) == SumOver([k \in ChangeKeys |-> InvocationsFor(w, k)], ChangeKeys)

\* the stat calls the flush of window w asked for, by their outcome
WindowStats(w) == {o \in DOMAIN ops : ops[o].kind = "changeStat" /\ ops[o].win = w}
StatOutstanding(w) == {ops[o].path : o \in {x \in WindowStats(w) : ops[x].seenErr = "unset"}}
StatSucceeded(w) == {ops[o].path : o \in {x \in WindowStats(w) : ops[x].seenErr = NoError}}
StatFailed(w) == {ops[o].path : o \in {x \in WindowStats(w) : ops[x].seenErr \notin {"unset", NoError}}}

\* C9 as stated: once the flush of a window and the stat calls it asked for are
\* over, the change callback has been invoked as many times as there are distinct
\* paths registered in the window.
C9_FlushCallbacksEqualDistinctPaths ==
    \A w \in DOMAIN windows :
       (windows[w].flushed /\ StatOutstanding(w) = {})
          => Invocations(w) = Cardinality(Registered(w))

\* C9: the flush of a window never invokes the change callback more often than
\* there are distinct paths registered in the window; with a change callback
\* installed at the flush the number of invocations is the number of distinct
\* paths registered without needsStats plus the number of those registered with
\* needsStats whose stat has succeeded, and without one it is zero.
C9_FlushCallbacksPerDistinctPath ==
    \A w \in DOMAIN windows :
       /\ Invocations(w) <= Cardinality(Registered(w))
       /\ windows[w].flushed =>
             /\ windows[w].keys = Registered(w)
             /\ Invocations(w) =
                   IF windows[w].hadCallback
                   THEN Cardinality(Registered(w) \ windows[w].needs)
                           + Cardinality(StatSucceeded(w))
                   ELSE 0
       /\ ~windows[w].flushed => Invocations(w) = 0

C9_Witness ==
    \E w \in DOMAIN windows :
       /\ windows[w].flushed /\ windows[w].hadCallback
       /\ Registrations(w) > Cardinality(Registered(w))
       /\ Cardinality(Registered(w)) >= 2
       /\ StatFailed(w) # {} /\ StatOutstanding(w) = {}
       /\ Invocations(w) = Cardinality(Registered(w)) - Cardinality(StatFailed(w))
       /\ Invocations(w) >= 1

\* C10: for every window and every path, the flush of the window invokes the
\* change callback at most once for the path, however many notifications
\* registered the path in the window.
C10_AtMostOncePerPath ==
    \A w \in DOMAIN windows : \A k \in ChangeKeys : InvocationsFor(w, k) <= 1

C10_Witness ==
    \E w \in DOMAIN windows : \E k \in ChangeKeys :
       /\ windows[w].flushed
       /\ windows[w].regs[k] >= 2
       /\ k \in windows[w].needs
       /\ InvocationsFor(w, k) = 1

\* C11: while a window is open the needsStats flag of every pending path is true
\* exactly when one of its registrations in the window was made by a
\* content-changed notification, and a step other than the flush never turns it
\* from true to false; every invocation of the change callback by the flush
\* carries a stat record exactly when the path was registered at least once by a
\* content-changed notification in that window.
C11_FlagIsOrOfRegistrations ==
    /\ \A i \in 1 .. Len(_pendingChanges) :
          /\ _changeTimeout # 0
          /\ _pendingChanges[i].needsStats
                <=> windows[_changeTimeout].statRegs[_pendingChanges[i].path] > 0
    /\ \A w \in DOMAIN windows : \A k \in ChangeKeys :
          /\ windows[w].withStats[k] > 0 => windows[w].statRegs[k] > 0
          /\ windows[w].plain[k] > 0 => windows[w].statRegs[k] = 0
          /\ windows[w].flushed => (k \in windows[w].needs <=> windows[w].statRegs[k] > 0)

\* a path registered by a content-changed and then by a structural notification
\* was reported with its stat record; another one, registered by structural
\* notifications only, without
C11_Witness ==
    \E w \in DOMAIN windows :
       /\ windows[w].regs["/d/f"] > windows[w].statRegs["/d/f"]
       /\ windows[w].statRegs["/d/f"] > 0
       /\ windows[w].withStats["/d/f"] = 1
       /\ windows[w].regs["/d/"] > 0 /\ windows[w].statRegs["/d/"] = 0
       /\ windows[w].plain["/d/"] = 1

\* C25: each "close" event of the connection causes exactly one invocation of
\* the registered offline callback (none when no callback is registered),
\* whether or not a batch is pending, and leaves the pending changes and the
\* batch timer as they are; nothing else invokes the offline callback
C25_OfflineOncePerClose ==
    [][/\ closes' # closes =>
            /\ closes' = closes + 1
            /\ offlineCalls' = IF _offlineCallback # "undefined"
                                THEN offlineCalls + 1 ELSE offlineCalls
            /\ UNCHANGED <<_pendingChanges, _changeTimeout, batchTimers>>
       /\ offlineCalls' # offlineCalls => closes' # closes]_vars

\* the connection closed while a batch was pending: the offline callback was
\* invoked once and the batch is still pending, its timer armed
C25_Witness ==
    /\ closes = 1
    /\ offlineCalls = 1
    /\ _pendingChanges # <<>>
    /\ _changeTimeout # 0

(***************************************************************************)
(* Properties of the facade operations (specification SpecFacade)          *)
(***************************************************************************)
\* no RPC call is outstanding and no timer of the scheduler is armed: the channel
\* has delivered the result of every call issued
ChannelQuiet == calls = {} /\ startTimers = {} /\ dequeueTimers = 0

\* C12: no operation of the facade invokes its completion callback twice, and
\* once the channel has delivered the result of every call issued, every
\* operation called has invoked its completion callback exactly once.
C12_CallbackExactlyOnce ==
    \A o \in 1 .. Len(ops) :
       /\ Len(ops[o].cb) <= 1
       /\ ChannelQuiet => Len(ops[o].cb) = 1

\* the values that say "no error" in the error position of a callback
NoErrorValues == {NoError, "undefined"}

\* C13: whatever an operation of the facade hands to its callback in the error
\* position is the no-error value or a member of ErrorKinds, never a raw error
\* object of the worker or the channel.
C13_ErrorPositionNormalized ==
    \A o \in 1 .. Len(ops) : \A i \in 1 .. Len(ops[o].cb) :
       ops[o].cb[i].err \in NoErrorValues \cup ErrorKinds

ExistsOps == {o \in 1 .. Len(ops) : ops[o].kind = "exists"}

\* C14: an exists call answered for an existing path has completed with no
\* error and the boolean true, and one answered for a missing path with no
\* error and the boolean false.
C14_ExistsReportsBoolean ==
    \A o \in ExistsOps :
       /\ ops[o].seenErr = NoError => ops[o].cb = <<CallbackValue(NoError, "true")>>
       /\ ops[o].seenErr = "ENOENT" => ops[o].cb = <<CallbackValue(NoError, "false")>>

\* unwatchAll operation o was called when every earlier operation had completed,
\* has completed without error, and no watchPath was called after it
UnwatchedAll(o) ==
    /\ ops[o].kind = "unwatchAll"
    /\ ops[o].quiet
    /\ ops[o].cb # <<>> /\ ops[o].cb[1].err \in NoErrorValues
    /\ \A p \in o + 1 .. Len(ops) : ops[p].kind # "watchPath"

\* C15: after unwatchAll has completed and until a path is watched again, the
\* worker holds no watcher for any path the application had watched (so no
\* watcher is left to emit a change event for such a path).
C15_UnwatchAllLeavesNoWatcher ==
    (\E o \in 1 .. Len(ops) : UnwatchedAll(o)) => _watcherMap \cap WatchPaths = {}

(***************************************************************************)
(* Properties of the connection-based facade (specification SpecConnection)*)
(***************************************************************************)
\* C16: every RPC call made for an operation of the facade was made by a thunk
\* that was submitted to the scheduler (it has a submission number) and, with a
\* finite bound, admitted by it.
C16_CallsPassThroughScheduler ==
    \A c \in calls :
       c.op # 0 =>
          /\ c.seq \in 1 .. submitted
          /\ MAX_CONNECTIONS >= 0 => \E i \in 1 .. Len(admitted) : admitted[i] = c.seq

(***************************************************************************)
(* Properties of the error translators (specification SpecTranslate)       *)
(***************************************************************************)
\* what the translation table of the dialog vocabulary gives for a code
DialogTable(code) ==
    CASE code = "ERR_INVALID_PARAMS" -> "InvalidParams"
      [] code = "ERR_NOT_FOUND" -> "NotFound"
      [] code \in {"ERR_CANT_READ", "ERR_UNSUPPORTED_ENCODING"} -> "NotReadable"
      [] code = "ERR_CANT_WRITE" -> "NotWritable"
      [] code = "ERR_OUT_OF_SPACE" -> "OutOfSpace"
      [] code = "ERR_FILE_EXISTS" -> "AlreadyExists"
      [] OTHER -> "Unknown"

\* C17: the translator of the dialog vocabulary gives the no-error value, which
\* is not Unknown, for an absent or null error and for the code 0 of "no error",
\* the kind of the table for each of the seven codes of the table and Unknown
\* for every other code; the other arguments reach the callback unchanged
C17_MapErrorTable ==
    (output.done /\ input.fn = "_wrap") =>
        /\ Len(output.args) = 2
        /\ output.args[2] = input.payload
        /\ output.args[1] = IF input.code \in {"undefined", "null", "0"} THEN NoError
                             ELSE DialogTable(input.code)
        /\ input.code \in {"undefined", "null", "0"} => output.args[1] # UNKNOWN

\* an unsupported encoding was translated to NotReadable
C17_Witness ==
    /\ output.done
    /\ input.fn = "_wrap"
    /\ input.code = "ERR_UNSUPPORTED_ENCODING"
    /\ output.args = <<"NotReadable", "/a">>

\* what the translation table of the worker's vocabulary gives for a cause code
NodeTable(code) ==
    CASE code = "ENOENT" -> "NotFound"
      [] code = "EEXIST" -> "AlreadyExists"
      [] code = "EPERM" -> "NotReadable"
      [] OTHER -> "Unknown"

\* C18 as stated: the translator of the worker's vocabulary gives the kind of
\* the table for the cause code, Unknown for every other or missing cause and
\* for an absent error, and writes its diagnostic whenever the result is Unknown
C18_UnknownAlwaysDiagnosed ==
    (output.done /\ input.fn = "_mapNodeError") =>
        /\ output.kind = NodeTable(input.err.cause)
        /\ ~output.threw
        /\ output.kind = UNKNOWN => output.logged

\* C18: the translator of the worker's vocabulary gives the kind of the table
\* for the cause code and Unknown for every other or missing cause and for an
\* absent error, without throwing; it writes its diagnostic exactly when an
\* error is present and its cause code is unrecognized or missing, and writes
\* none for an absent error
C18_UnknownDiagnosedWhenErrorPresent ==
    (output.done /\ input.fn = "_mapNodeError") =>
        /\ output.kind = NodeTable(input.err.cause)
        /\ ~output.threw
        /\ output.logged <=> (input.err # NoRawErr /\ output.kind = UNKNOWN)

\* an absent error was translated to Unknown and no diagnostic was written
C18_Witness ==
    /\ output.done
    /\ input.fn = "_mapNodeError"
    /\ input.err = NoRawErr
    /\ output.kind = UNKNOWN
    /\ ~output.logged

(***************************************************************************)
(* Properties of readFile (specification SpecReadFile)                     *)
(***************************************************************************)
ReadFileOps == {o \in 1 .. Len(ops) : ops[o].kind = "readFile"}

\* the worker found the content read for o to be binary
FoundBinary(o) ==
    /\ ops[o].obs # <<>>
    /\ ~ops[o].obs[1].rejected
    /\ isBinaryFile(ops[o].obs[1].data, ops[o].obs[1].stats.size)

\* C19: a readFile in text mode of a file whose content is identified as binary
\* calls back with the kind of binary content, which is neither Unknown nor
\* another kind of the facade, and with no content
C19_BinaryContentReported ==
    \A o \in ReadFileOps :
        (FoundBinary(o) /\ ops[o].cb # <<>>) =>
            /\ ops[o].cb[1].err \notin ErrorKinds \cup {NoError}
            /\ ~ops[o].cb[1].hasData

(***************************************************************************)
(* Properties of the binary stat encoding (specification SpecStatCodec)    *)
(***************************************************************************)
\* the stat record the encoder was given, as a decoder returns it
GivenRecord ==
    [ok |-> TRUE, isFile |-> input.stats.isFile, mtime |-> input.stats.mtime,
     size |-> input.stats.size, realpath |-> input.realpath]

\* C20: for every stat record whose resolved path has R < 32767 characters the
\* worker produces an encoding, and reading it by the layout of the binary stat
\* record gives back the same isFile, mtime, size and resolved path
C20_BinaryRoundTrip ==
    (output.done /\ input.fn = "_getStatsBuffer" /\ Len(input.realpath) < 32767) =>
        /\ ~output.threw
        /\ decodeStats(output.bytes) = GivenRecord

\* the encoder was applied to the stat record of the state
EncoderDone == output.done /\ input.fn = "_getStatsBuffer"

\* C21: the binary encoding of a stat record with a resolved path of R
\* characters is made without a write at or beyond the end of the buffer, is
\* 18 + 2R bytes long, holds (R << 1) | fileBit in its flags field at bytes 16
\* and 17, and holds character i of the path as one 16-bit unit at offset 18 + 2i
C21_BinaryLayout ==
    EncoderDone =>
        LET R == Len(input.realpath)
            fileBit == IF input.stats.isFile THEN 1 ELSE 0
        IN /\ ~output.threw
           /\ Len(output.bytes) = 18 + (2 * R)
           /\ output.bytes[17] + (256 * output.bytes[18]) = (2 * R) + fileBit
           /\ \A i \in 0 .. R - 1 :
                 output.bytes[19 + (2 * i)] + (256 * output.bytes[20 + (2 * i)])
                     = input.realpath[i + 1]

\* C22: the binary encoder accepts every resolved path of R < 2^15 characters
\* and rejects every resolved path of more than 32767 characters; a buffer it
\* produces holds R in the upper 15 bits of its flags field
C22_AcceptsBelowLimitRejectsAbove ==
    EncoderDone =>
        LET R == Len(input.realpath)
        IN /\ R < 32768 => ~output.threw
           /\ R > 32767 => output.threw
           /\ ~output.threw => (output.bytes[17] + (256 * output.bytes[18])) \div 2 = R

\* the resolved path carried by the stat record the stat helper produced
CarriedRealpath ==
    IF output.binary THEN decodeStats(output.bytes).realpath ELSE output.obj.realpath

\* C24: a stat record produced by the worker carries a resolved path if and
\* only if the path looked up is a symbolic link, and for a symbolic link to a
\* directory the resolved path ends with exactly one path separator
C24_ResolvedPathIffLink ==
    (output.done /\ input.fn = "_statHelper" /\ ~output.threw) =>
        LET r == CarriedRealpath
        IN /\ Len(r) > 0 <=> input.isLink
           /\ (input.isLink /\ input.entry.kind = "dir") =>
                 /\ r[Len(r)] = 47
                 /\ Len(r) > 1 => r[Len(r) - 1] # 47

(***************************************************************************)
(* Properties of the encoding selector (specification SpecEncoding)        *)
(***************************************************************************)
\* the readFile, readAllFiles and writeFile commands sent to the worker
EncodedCalls == {c \in calls : c.cmd \in {"readFile", "readAllFiles", "writeFile"}}

\* C26: when the caller of readFile, readAllFiles or writeFile selects the
\* encoding null the command is sent to the worker with encoding null, and a
\* text encoding is sent only when the caller named it or named none
C26_NullSelectsBinary ==
    \A c \in EncodedCalls :
        /\ ops[c.op].optEncoding = "null" => ops[c.op].encoding = "null"
        /\ ops[c.op].encoding # "null" =>
              ops[c.op].optEncoding \in {ops[c.op].encoding, "undefined"}

(***************************************************************************)
(* Properties of the binary batch read (specification SpecReadBinary)      *)
(***************************************************************************)
\* the entry a reader of the batch must find for one path
ExpectedEntry(part) ==
    IF part.rejected
    THEN [failed |-> TRUE, isFile |-> FALSE, mtime |-> -1, size |-> -1, data |-> <<>>]
    ELSE [failed |-> FALSE, isFile |-> part.stats.isFile, mtime |-> part.stats.mtime,
          size |-> Len(part.data), data |-> part.data]

\* the calls of readAllFiles with encoding null the worker has answered
BinaryReplies == {c \in calls : c.cmd = "readAllFiles" /\ c.wst = "replied"
                                   /\ ops[c.op].encoding = "null"}

\* C23: the response of readAllFiles with encoding null is a buffer that, read
\* sequentially, gives one entry per path in the order of the paths: a failure
\* for a path that failed, and else the stat record of the path, whose size
\* field is the number of content bytes that follow it, with the content read
C23_BinaryBatchFraming ==
    \A c \in BinaryReplies :
        /\ c.res.ok
        /\ decodeBatch(c.res.bytes, Len(c.parts))
              = [i \in 1 .. Len(c.parts) |-> ExpectedEntry(c.parts[i])]

(***************************************************************************)
(* Properties of the batch timer (specification SpecWatch)                 *)
(***************************************************************************)
\* a step that registers a change: the open window counts one registration more
Registers ==
    /\ _changeTimeout' # 0
    /\ _changeTimeout' \in DOMAIN windows'
    /\ Registrations(_changeTimeout)' =
          IF _changeTimeout = 0 THEN 1 ELSE Registrations(_changeTimeout) + 1

\* C27: the batch timer is armed by the first registration made while no timer
\* is armed, and a registration made while one is armed neither arms another
\* timer nor replaces the armed one, so that the flush of a window is the firing
\* of the timer its first registration armed; at most one timer is armed at any
\* time, and it is the one _changeTimeout holds.
C27_TimerArmedOncePerWindow ==
    [][ /\ Cardinality(batchTimers') <= 1
        /\ batchTimers' = IF _changeTimeout' = 0 THEN {} ELSE {_changeTimeout'}
        /\ (Registers /\ _changeTimeout # 0) =>
               /\ _changeTimeout' = _changeTimeout
               /\ batchTimers' = batchTimers
               /\ Len(windows') = Len(windows)
        /\ (Registers /\ _changeTimeout = 0) =>
               /\ _changeTimeout' = Len(windows) + 1
               /\ batchTimers' = {_changeTimeout'}
               /\ Len(windows') = Len(windows) + 1
        /\ \A w \in DOMAIN windows :
               (~windows[w].flushed /\ windows'[w].flushed) =>
                  /\ w = _changeTimeout
                  /\ batchTimers = {w}
                  /\ batchTimers' = {} ]_vars

\* a window with several registrations was flushed by its one timer, and the
\* next registration has armed the timer of the next window
C27_Witness ==
    /\ Len(windows) = 2
    /\ windows[1].flushed /\ Registrations(1) >= 2
    /\ ~windows[2].flushed /\ Registrations(2) >= 1
    /\ _changeTimeout = 2 /\ batchTimers = {2}

\* the batch timer is armed exactly when the pending-changes map is non-empty
ArmedIffPending ==
    /\ _changeTimeout # 0 <=> Len(_pendingChanges) > 0
    /\ batchTimers # {} <=> Len(_pendingChanges) > 0

\* C28: in every reachable state the batch timer is armed if and only if the
\* pending-changes map is non-empty; the step that flushes a window empties the
\* map and unsets the timer together, and a registration made after it opens a
\* window that did not exist, with a timer that was not armed before.
C28_TimerArmedIffPending ==
    /\ ArmedIffPending
    /\ [][ /\ ArmedIffPending'
           /\ \A w \in DOMAIN windows :
                  (~windows[w].flushed /\ windows'[w].flushed) =>
                     /\ Len(_pendingChanges) > 0 /\ Len(_pendingChanges') = 0
                     /\ _changeTimeout = w /\ _changeTimeout' = 0
           /\ (Len(_pendingChanges) = 0 /\ Len(_pendingChanges') > 0) =>
                  /\ _changeTimeout' \notin DOMAIN windows
                  /\ _changeTimeout' \in DOMAIN windows'
                  /\ ~windows'[_changeTimeout'].flushed
                  /\ \A w \in DOMAIN windows : windows[w].flushed
                  /\ batchTimers' = {_changeTimeout'} ]_vars

\* two windows were opened and flushed in turn, the first one with several
\* registrations, and the map and the timer are both unset again
C28_Witness ==
    /\ Len(windows) = 2 /\ windows[1].flushed /\ windows[2].flushed
    /\ Registrations(1) >= 2 /\ Registrations(2) >= 1
    /\ Len(_pendingChanges) = 0 /\ _changeTimeout = 0 /\ batchTimers = {}

(***************************************************************************)
(* Properties of the stat calls of a flush (specification SpecWatch)       *)
(***************************************************************************)
\* C29: the flush asks for the stat of a path at most once, and when that stat
\* has failed the change callback is not invoked for the path in that window,
\* nothing is handed to a callback of the stat call, and the stat is not sent
\* again; every other path of the window is reported all the same, once without
\* a stat record if it needed none and once with one if its own stat succeeded.
C29_FailedStatIsDropped ==
    \A w \in DOMAIN windows :
       /\ \A o \in WindowStats(w) :
              /\ ops[o].rpcCalls <= 1
              /\ ops[o].cb = <<>>
              /\ \A o2 \in WindowStats(w) : ops[o2].path = ops[o].path => o2 = o
       /\ \A k \in StatFailed(w) :
              /\ k \notin StatSucceeded(w) \cup StatOutstanding(w)
              /\ InvocationsFor(w, k) = 0
       /\ (windows[w].flushed /\ windows[w].hadCallback) =>
              \A k \in windows[w].keys :
                 /\ k \notin windows[w].needs =>
                       (windows[w].plain[k] = 1 /\ windows[w].withStats[k] = 0)
                 /\ k \in StatSucceeded(w) =>
                       (windows[w].withStats[k] = 1 /\ windows[w].plain[k] = 0)

\* the stat of one path of a window failed; the two other paths of the window
\* were reported, one with its stat record and one without
C29_Witness ==
    \E w \in DOMAIN windows :
       /\ windows[w].flushed /\ windows[w].hadCallback
       /\ Cardinality(windows[w].keys) = 3
       /\ Cardinality(StatFailed(w)) = 1 /\ StatOutstanding(w) = {}
       /\ \A k \in StatFailed(w) : InvocationsFor(w, k) = 0
       /\ \E k \in StatSucceeded(w) : windows[w].withStats[k] = 1
       /\ \E k \in windows[w].keys \ windows[w].needs : windows[w].plain[k] = 1

(***************************************************************************)
(* Properties of the notifications that register nothing (SpecWatch)       *)
(***************************************************************************)
\* a content-changed notification without a filename, or one of another kind
\* than content-changed and structural
Ignored(event, filename) ==
    \/ event = "change" /\ filename = ""
    \/ event \notin {"change", "rename"}

\* the registrations of all windows so far
AllRegistrations == SumOver([w \in DOMAIN windows |-> Registrations(w)], DOMAIN windows)

\* C30: in every reachable state _fileWatcherChange returns the pending-changes
\* map, the batch timer and the callback counts as they are for a
\* content-changed notification without a filename and for a notification of
\* another kind than content-changed and structural, and registers the path for
\* every other notification; the step of a notification that registers nothing
\* changes neither the map nor the timer, invokes no callback and asks for no
\* stat.
C30_IgnoredNotificationChangesNothing ==
    /\ \A path \in RawPaths, event \in RawEvents, filename \in RawNames :
          LET W == _fileWatcherChange(path, event, filename, Coalescer)
          IN IF Ignored(event, filename)
             THEN W = Coalescer
             ELSE /\ W.ct # 0
                  /\ SumOver(W.win[W.ct].regs, ChangeKeys)
                        = IF _changeTimeout = 0 THEN 1
                          ELSE Registrations(_changeTimeout) + 1
    /\ [][ (notified' # notified /\ AllRegistrations' = AllRegistrations) =>
              UNCHANGED <<_pendingChanges, _changeTimeout, batchTimers, windows,
                          ops, calls, offlineCalls>> ]_vars

\* two notifications registered in the open window and a third one was ignored
C30_Witness ==
    /\ notified = 3 /\ AllRegistrations = 2
    /\ Len(windows) = 1 /\ ~windows[1].flushed
    /\ _changeTimeout = 1 /\ Len(_pendingChanges) >= 1

(***************************************************************************)
(* Properties of the race of writeFile (specification SpecWrite)           *)
(***************************************************************************)
\* the initial stat of writeFile o found a file whose hash is the caller's token
TokenMatched(o) ==
    /\ ops[o].seenErr = NoError
    /\ ops[o].hash.has
    /\ ops[o].hash.val = ops[o].seenHash

\* the file at the path of o is not the one the initial stat of o saw
ChangedSinceCheck(o) ==
    /\ fs[ops[o].path].kind = "file"
    /\ fs[ops[o].path].mtime # ops[o].seenHash

\* the writeFile calls of the worker that have passed the exists test
WritesChecked == {c \in calls : c.cmd = "writeFile" /\ c.wst = "checked"}

\* C31: nothing keeps other processes from writing the file between the stat
\* check of writeFile and its write; a writeFile whose token matched at the
\* check is never answered with ContentsModified, its write replaces whatever
\* the file holds at that moment, also a content written after the check, and
\* the answer of the worker is handed to the callback as it is.
C31_WriteAfterCheckOverwrites ==
    /\ \A o \in WriteOps :
          TokenMatched(o) =>
             /\ Len(ops[o].cb) <= 1
             /\ \A i \in 1 .. Len(ops[o].cb) : ops[o].cb[i].err # CONTENTS_MODIFIED
    /\ [][\A c \in WritesChecked :
             [c EXCEPT !.wst = "written"] \in calls' =>
                fs'[ops[c.op].path] = File(ops[c.op].data, clock)
         ]_vars
    /\ [][\A c \in calls : \A o \in WriteOps :
             (c.cmd = "writeFile" /\ c.op = o /\ c.wst = "replied" /\ c.res.ok
                /\ TokenMatched(o) /\ c \notin calls') =>
                ops'[o].cb = <<CallbackArgs(NoError, _mapNodeStats(c.res.stats),
                                            IF c.res.created THEN "true" ELSE "false")>>
         ]_vars

\* the token matched at the check, another process has written the file since,
\* and the write of writeFile is about to replace that content
C31_Witness ==
    \E c \in WritesChecked :
       /\ TokenMatched(c.op)
       /\ ChangedSinceCheck(c.op)
       /\ fs[ops[c.op].path].data \in OtherContents
       /\ ops[c.op].cb = <<>>

(***************************************************************************)
(* Properties of the deferred calls (specification SpecConnection)         *)
(***************************************************************************)
\* the operations whose call waits for _nodeConnectionPromise
DeferredOps == {deferred[i].op : i \in 1 .. Len(deferred)}

\* the operations whose call has been sent to the worker
SentOps == {o \in DOMAIN ops : ops[o].sentAt > 0}

Waits(k) == \E i \in 1 .. Len(_waitingRequests) : _waitingRequests[i].seq = k
WasAdmitted(k) == \E i \in 1 .. Len(admitted) : admitted[i] = k

\* no request waits while a slot is free and no dequeue attempt is pending
NoIdleWaiting ==
    MAX_CONNECTIONS >= 0 =>
       ~(/\ Len(_waitingRequests) > 0
         /\ _pendingRequestCount <= MAX_CONNECTIONS
         /\ dequeueTimers = 0)

\* C33: with a finite bound and every started request completing, every
\* request that waits is eventually admitted, and no request waits while the
\* in-flight count is at or below the bound and no dequeue attempt is pending.
C33_EveryRequestEventuallyAdmitted ==
    /\ []NoIdleWaiting
    /\ \A k \in 1 .. (MaxRequests + MaxStats) :
          (MAX_CONNECTIONS >= 0 /\ Waits(k)) ~> WasAdmitted(k)

(***************************************************************************)
(* The worker's watcher map (specification SpecWorker)                     *)
(***************************************************************************)
\* the watchers of a path that were created and never stopped
OpenWatchers(path) ==
    {i \in DOMAIN watchers : watchers[i].path = path /\ watchers[i].state = "open"}

\* C34: after any sequence of watchPath, unwatchPath, unwatchAll and watcher
\* errors the map holds exactly one watcher for each path whose latest
\* successful watchPath was not followed by an unwatchPath, unwatchAll or
\* watcher error for the path, and none for any other path.
C34_MapHoldsOneWatcherPerWatchedPath ==
    /\ _watcherMap = tracked
    /\ \A path \in WorkerPaths :
          Cardinality(OpenWatchers(path)) = IF path \in tracked THEN 1 ELSE 0

\* one path holds its watcher while another, watched before it, was dropped
\* from the map by an unwatchPath or error handler whose stop failed
C34_Witness ==
    /\ _watcherMap = {"/d/"}
    /\ Len(watchers) = 2
    /\ watchers[1] = [path |-> "/a", state |-> "failed"]
    /\ watchers[2] = Watcher("/d/")

(***************************************************************************)
(* A flush without change callback (specification SpecWatch)               *)
(***************************************************************************)
\* the windows whose timer expired while no change callback was registered
Discarded == {w \in DOMAIN windows : windows[w].flushed /\ ~windows[w].hadCallback}

\* the change callback was never invoked, and no stat issued, for window w
NothingDelivered(w) ==
    /\ \A k \in ChangeKeys : windows[w].plain[k] = 0 /\ windows[w].withStats[k] = 0
    /\ \A o \in DOMAIN ops : ops[o].win # w

\* C35: a flush with no change callback registered invokes nothing, discards
\* every pending change of the window and resets the timer; a callback
\* registered afterwards never receives the discarded changes.
C35_FlushWithoutCallbackDiscards ==
    /\ \A w \in Discarded : NothingDelivered(w)
    /\ [][ \A w \in batchTimers \ batchTimers' :
              _changeCallback = "undefined" =>
                 /\ w \in Discarded'
                 /\ _pendingChanges' = <<>> /\ _changeTimeout' = 0
                 /\ ops' = ops /\ calls' = calls /\ startTimers' = startTimers ]_vars

\* a window with pending changes was flushed without callback; the callback
\* registered afterwards has been invoked for the changes of the next window
C35_Witness ==
    /\ Len(windows) = 2
    /\ 1 \in Discarded /\ windows[1].keys # {}
    /\ _changeCallback # "undefined"
    /\ windows[2].flushed /\ windows[2].hadCallback
    /\ \E k \in windows[1].keys : windows[2].plain[k] > 0

====
